---- MODULE Spec2Model ----
(***************************************************************************)
(* Model of the mcproto Python client core:                                *)
(*   - mcp/stdio.py    StdioReader / StdioWriter  (length-prefixed frames)  *)
(*   - mcp/bsr.py      BSRRef.parse, BSRClient.fetch_descriptor_set         *)
(*   - mcp/registry.py Registry.resolve / Registry.unpack                   *)
(*                                                                         *)
(* Byte strings are run-length encoded: a byte string is a sequence of     *)
(* runs [b |-> byte, n |-> count] in canonical form (no empty run, no two  *)
(* adjacent runs of the same byte).  This keeps frames of 32 MiB exact.    *)
(* Text strings are sequences of one-character strings.                    *)
(***************************************************************************)
EXTENDS Integers, Sequences, FiniteSets, TLC

VARIABLES
    wire,       \* stdio: every byte put on the stream so far (run-length encoded)
    rpos,       \* stdio: read offset of the reader's BinaryIO into wire
    closed,     \* stdio: the writing end has been closed (end of stream follows wire)
    last,       \* stdio: outcome of the latest StdioReader.read_message call
    sent,       \* stdio: log of StdioWriter.write_message calls, [msg, off]
    nraw,       \* stdio: number of raw writes made by a peer that bypasses StdioWriter
    nreads,     \* stdio: number of read_message calls made so far
    sink,       \* stdio: the kind of BinaryIO the stream is, fixed when it is made
    text,       \* bsr: the reference text handed to BSRRef.parse
    parse_out,  \* bsr: outcome of BSRRef.parse(text)
    pool,       \* registry: self.pool, the files the DescriptorPool holds
    cache,      \* registry: self.cache, repo_id -> FileDescriptorSet
    pc,         \* registry: where each worker stands inside Registry.resolve
    call,       \* registry: the locals of each worker's resolve call
    hist,       \* registry: the two latest completed resolve calls, oldest first
    ncalls,     \* registry: number of resolve calls started
    http_resp,  \* bsr: the HTTP response session.post gives fetch_descriptor_set
    fetch_out,  \* bsr: outcome of fetch_descriptor_set on http_resp
    tools,      \* scripts: the tools handed to build_proto_listing_payload
    listing,    \* scripts: outcome of build_proto_listing_payload(tools)
    outbox,     \* stdio: bytes the writer's sink has taken that have not reached the reader
    wtodo,      \* stdio: the sink operations a write_message call has still to make
    wops,       \* stdio: log of the operations made on the writer's sink
    rcall,      \* stdio: a read_message call between its two reads
    gpc,        \* grpc: where the user of a GRPCClient stands
    channel,    \* grpc: self.channel, its state and the close() calls it got
    rpcs,       \* grpc: the stub calls made inside the with block
    exc         \* grpc: the exception that is escaping, or has escaped, to the caller

stdioVars == <<wire, rpos, closed, last, sent, nraw, nreads, sink>>
parseVars == <<text, parse_out>>
regVars == <<pool, cache, pc, call, hist, ncalls>>
fetchVars == <<http_resp, fetch_out>>
listVars == <<tools, listing>>
pipeVars == <<outbox, wtodo, wops, rcall>>
grpcVars == <<gpc, channel, rpcs, exc>>

----------------------------------------------------------------------------
(* Bounds of the model *)

\* frames written through StdioWriter in one behaviour
MaxFrames == 2
\* raw byte strings written by a foreign peer in one behaviour
MaxRaw == 1
\* read_message calls in one behaviour
MaxReads == 3
\* characters of a reference text after its first ten
MaxTail == 8
\* resolve calls in one behaviour
MaxCalls == 3
\* workers that may call into one Registry
MaxWorkers == 2
\* tools in one listing
MaxTools == 2
\* stub calls inside one with block
MaxRpcs == 3

----------------------------------------------------------------------------
(* Run-length encoded byte strings *)

RECURSIVE RLen(_)
\* len(bytes)
RLen(rs) == IF rs = <<>> THEN 0 ELSE Head(rs).n + RLen(Tail(rs))

RECURSIVE RTake(_, _)
\* bytes[:k]
RTake(rs, k) ==
    IF k <= 0 \/ rs = <<>> THEN <<>>
    ELSE IF Head(rs).n <= k THEN <<Head(rs)>> \o RTake(Tail(rs), k - Head(rs).n)
    ELSE <<[b |-> Head(rs).b, n |-> k]>>

RECURSIVE RDrop(_, _)
\* bytes[k:]
RDrop(rs, k) ==
    IF k <= 0 \/ rs = <<>> THEN rs
    ELSE IF Head(rs).n <= k THEN RDrop(Tail(rs), k - Head(rs).n)
    ELSE <<[b |-> Head(rs).b, n |-> Head(rs).n - k]>> \o Tail(rs)

\* a + b on byte strings (both canonical, result canonical)
RCat(a, b) ==
    IF a = <<>> THEN b
    ELSE IF b = <<>> THEN a
    ELSE IF a[Len(a)].b = b[1].b
         THEN SubSeq(a, 1, Len(a) - 1)
              \o <<[b |-> b[1].b, n |-> a[Len(a)].n + b[1].n]>>
              \o Tail(b)
         ELSE a \o b

\* bytes[i] (0-based, as in Python)
RByte(rs, i) == RTake(RDrop(rs, i), 1)[1].b

RECURSIVE RBytes(_)
\* the byte string holding the bytes of the sequence bs
RBytes(bs) ==
    IF bs = <<>> THEN <<>>
    ELSE RCat(<<[b |-> Head(bs), n |-> 1]>>, RBytes(Tail(bs)))

----------------------------------------------------------------------------
(* mcp/stdio.py *)

\* stdio.py:5  MAX_MESSAGE_SIZE = 32 * 1024 * 1024
MAX_MESSAGE_SIZE == 32 * 1024 * 1024

\* struct.pack("<I", n): the same four bytes, least significant first
struct_pack_le(n) ==
    RBytes(<<n % 256, (n \div 256) % 256, (n \div 65536) % 256, (n \div 16777216) % 256>>)

\* struct.pack(">I", n): four bytes, most significant first
struct_pack(n) ==
    RBytes(<<(n \div 16777216) % 256, (n \div 65536) % 256, (n \div 256) % 256, n % 256>>)

\* struct.unpack(">I", buf)[0] for a buffer of four bytes
struct_unpack(buf) ==
    RByte(buf, 0) * 16777216 + RByte(buf, 1) * 65536 + RByte(buf, 2) * 256 + RByte(buf, 3)

\* BinaryIO.read(n) on a blocking stream holding `stream`, positioned at pos:
\* the next n bytes, fewer only when the stream ends first
io_read(stream, pos, n) == RTake(RDrop(stream, pos), n)

(* The envelope mcp_pb2.MCPMessage: a correlation id and one optional       *)
(* variant, whose bytes are carried opaquely.  Wire format: protobuf,       *)
(* field 1 = id (varint), field 2 = the variant (length-delimited).         *)

NoMessage == [id |-> 0, set |-> FALSE, payload |-> <<>>]

RECURSIVE VarintBytes(_)
\* protobuf base-128 varint of v, least significant group first
VarintBytes(v) ==
    IF v < 128 THEN <<v>> ELSE <<(v % 128) + 128>> \o VarintBytes(v \div 128)

RECURSIVE ReadVarint(_, _, _, _)
\* decode the varint of bs that starts at offset i
ReadVarint(bs, i, mult, acc) ==
    IF i >= RLen(bs) THEN [ok |-> FALSE, val |-> 0, next |-> i]
    ELSE LET b == RByte(bs, i) IN
         IF b < 128 THEN [ok |-> TRUE, val |-> acc + b * mult, next |-> i + 1]
         ELSE ReadVarint(bs, i + 1, mult * 128, acc + (b - 128) * mult)

\* msg.SerializeToString(): proto3 omits a zero id and an unset variant
SerializeToString(msg) ==
    RCat(IF msg.id = 0 THEN <<>> ELSE RBytes(<<8>> \o VarintBytes(msg.id)),
         IF ~msg.set THEN <<>>
         ELSE RCat(RBytes(<<18>> \o VarintBytes(RLen(msg.payload))), msg.payload))

\* the values an envelope under construction may take
MessageType == [id : Nat, set : BOOLEAN, payload : Seq([b : Nat, n : Nat])]

\* msg = MCPMessage(); msg.ParseFromString(buf): the field loop, from offset
\* a[1] with a[2] the message decoded so far
ParseFromString(buf) ==
    LET ParseFields[a \in Nat \X MessageType] ==
          LET i == a[1]
              msg == a[2]
              tag == ReadVarint(buf, i, 1, 0)
              field == tag.val \div 8
              wt == tag.val % 8
              v == ReadVarint(buf, tag.next, 1, 0)
          IN
          IF i >= RLen(buf) THEN [ok |-> TRUE, msg |-> msg]
          ELSE IF ~tag.ok THEN [ok |-> FALSE, msg |-> NoMessage]
          ELSE IF field = 0 THEN [ok |-> FALSE, msg |-> NoMessage]
          ELSE IF wt = 0 THEN
              IF ~v.ok THEN [ok |-> FALSE, msg |-> NoMessage]
              ELSE ParseFields[<<v.next,
                                 IF field = 1 THEN [msg EXCEPT !.id = v.val] ELSE msg>>]
          ELSE IF wt = 2 THEN
              IF ~v.ok THEN [ok |-> FALSE, msg |-> NoMessage]
              ELSE IF v.next + v.val > RLen(buf) THEN [ok |-> FALSE, msg |-> NoMessage]
              ELSE ParseFields[<<v.next + v.val,
                                 IF field = 2
                                 THEN [msg EXCEPT !.set = TRUE,
                                                  !.payload = RTake(RDrop(buf, v.next), v.val)]
                                 ELSE msg>>]
          ELSE [ok |-> FALSE, msg |-> NoMessage]
    IN ParseFields[<<0, NoMessage>>]

\* length >= MAX_MESSAGE_SIZE
ExceedsLimit_ge(len_buf) ==
    IF RByte(len_buf, 0) >= 128 THEN TRUE
    ELSE struct_unpack(len_buf) >= MAX_MESSAGE_SIZE

\* stdio.py:22  length > MAX_MESSAGE_SIZE, for the length a 4-byte prefix declares
\* (a first byte >= 128 declares at least 2^31, beyond the checker's integers)
ExceedsLimit(len_buf) ==
    IF RByte(len_buf, 0) >= 128 THEN TRUE
    ELSE struct_unpack(len_buf) > MAX_MESSAGE_SIZE

\* the end-of-stream test dropped: an empty read is a short prefix
PrefixOutcome_eof_raises(len_buf) ==
    IF RLen(len_buf) < 4 THEN "IncompleteLengthPrefix" ELSE "ok"

\* a short prefix taken for the end of the stream
PrefixOutcome_short_eof(len_buf) ==
    IF RLen(len_buf) < 4 THEN "EndOfStream" ELSE "ok"

\* stdio.py:14-17  what the bytes returned by read(4) lead to
PrefixOutcome(len_buf) ==
    IF RLen(len_buf) = 0 THEN "EndOfStream"
    ELSE IF RLen(len_buf) < 4 THEN "IncompleteLengthPrefix"
    ELSE "ok"

\* `if not msg_buf` in place of the length comparison
BodyIncomplete_empty(msg_buf, length) == RLen(msg_buf) = 0 /\ length > 0

\* `if not msg_buf`: an empty body counts as missing
BodyIncomplete_not_buf(msg_buf, length) == RLen(msg_buf) = 0

\* stdio.py:27  len(msg_buf) < length
BodyIncomplete(msg_buf, length) == RLen(msg_buf) < length

\* the prefix declares the length of the whole frame, its own four bytes
\* included
write_message_ops_len_with_prefix(msg) ==
    LET data == SerializeToString(msg)
        len_buf == struct_pack(RLen(data) + 4)
    IN <<[op |-> "write", data |-> len_buf], [op |-> "write", data |-> data],
         [op |-> "flush", data |-> <<>>]>>

\* the body is written before the prefix
write_message_ops_body_first(msg) ==
    LET data == SerializeToString(msg)
        len_buf == struct_pack(RLen(data))
    IN <<[op |-> "write", data |-> data], [op |-> "write", data |-> len_buf],
         [op |-> "flush", data |-> <<>>]>>

\* prefix, flush, body: the flush is made before the body is written
write_message_ops_flush_first(msg) ==
    LET data == SerializeToString(msg)
        len_buf == struct_pack(RLen(data))
    IN <<[op |-> "write", data |-> len_buf], [op |-> "flush", data |-> <<>>],
         [op |-> "write", data |-> data]>>

\* stdio.py:39-47  the operations write_message makes on self.writer, in
\* order: write(len_buf), write(data), flush()
write_message_ops(msg) ==
    LET data == SerializeToString(msg)
        len_buf == struct_pack(RLen(data))
    IN <<[op |-> "write", data |-> len_buf], [op |-> "write", data |-> data],
         [op |-> "flush", data |-> <<>>]>>

\* stdio.py:13, 26  self.reader.read(n) on a blocking, buffered stream
\* returns once n bytes are there or the stream has ended
BlockingReadReturns(stream, pos, n, ended) ==
    IF ended THEN TRUE ELSE RLen(stream) - pos >= n

\* FileIO.read(n) on a pipe returns at once for n = 0, and otherwise as soon
\* as one byte has arrived or the stream has ended
RawReadReturns(stream, pos, n, ended) ==
    IF n = 0 THEN TRUE
    ELSE IF ended THEN TRUE
    ELSE RLen(stream) - pos >= 1

----------------------------------------------------------------------------
(* mcp/bsr.py: BSRRef *)

\* "buf.build/"
SchemePrefix == <<"b", "u", "f", ".", "b", "u", "i", "l", "d", "/">>

\* the default of BSRRef.__init__'s version parameter, "main"
DefaultVersion == <<"m", "a", "i", "n">>

\* every text is taken to begin with the prefix
startswith_any(s, prefix) == TRUE

\* s.startswith(prefix)
startswith(s, prefix) ==
    IF Len(s) < Len(prefix) THEN FALSE ELSE SubSeq(s, 1, Len(prefix)) = prefix

\* s.split(sep) for a one-character separator: the pieces between the
\* occurrences of sep, in order; always at least one piece
split(s, sep) ==
    LET idx == {i \in 1..Len(s) : s[i] = sep}
        n == Cardinality(idx)
        kth(k) == CHOOSE i \in idx : Cardinality({j \in idx : j < i}) = k - 1
        first(k) == IF k = 1 THEN 1 ELSE kth(k - 1) + 1
        final(k) == IF k = n + 1 THEN Len(s) ELSE kth(k) - 1
    IN [k \in 1..(n + 1) |-> SubSeq(s, first(k), final(k))]

RECURSIVE join(_, _)
\* sep.join(parts)
join(parts, sep) ==
    IF parts = <<>> THEN <<>>
    ELSE IF Len(parts) = 1 THEN parts[1]
    ELSE parts[1] \o <<sep>> \o join(Tail(parts), sep)

NoRef == [owner |-> <<>>, repository |-> <<>>, message |-> <<>>, version |-> <<>>]

\* too few parts tested as len(parts) < 2
TooFewParts_two(parts) == Len(parts) < 2

\* bsr.py:21  len(parts) < 3
TooFewParts(parts) == Len(parts) < 3

\* BSRRef.parse(ref): kind "BSRRef" (returns ref) or "ValueError" (raises)
BSRRef_parse(ref) ==
    LET parts == split(SubSeq(ref, Len(SchemePrefix) + 1, Len(ref)), "/")
        rest == join(SubSeq(parts, 3, Len(parts)), "/")
        message_parts == split(rest, ":")
    IN
    IF ~startswith(ref, SchemePrefix) THEN [kind |-> "ValueError", ref |-> NoRef]
    ELSE IF TooFewParts(parts) THEN [kind |-> "ValueError", ref |-> NoRef]
    ELSE [kind |-> "BSRRef",
          ref |-> [owner |-> parts[1],
                   repository |-> parts[2],
                   message |-> message_parts[1],
                   version |-> IF Len(message_parts) > 1 THEN message_parts[2]
                               ELSE DefaultVersion]]

----------------------------------------------------------------------------
(* mcp/config.py, mcp/bsr.py: BSRClient, mcp/registry.py: Registry *)

\* config.py:21  MAX_REGISTRY_CACHE_SIZE = 100
MAX_REGISTRY_CACHE_SIZE == 100

\* registry.py:28  f"{ref.owner}/{ref.repository}@{ref.version}"
repo_id_of(ref) == ref.owner \o <<"/">> \o ref.repository \o <<"@">> \o ref.version

\* registry.py:61  f"{fd.package}.{mt.name}" if fd.package else mt.name
full_name_of(fd, mt) == IF fd.package # <<>> THEN fd.package \o <<".">> \o mt.name ELSE mt.name

\* the message names a FileDescriptorProto defines
FileSymbols(fd) == {full_name_of(fd, fd.message_type[i]) : i \in 1..Len(fd.message_type)}

\* the message names a DescriptorPool knows
PoolSymbols(files) == UNION {FileSymbols(fd) : fd \in files}

\* a pool whose lookups all raise KeyError
FindMessageTypeByName_miss(files, name) ==
    [kind |-> "KeyError", desc |-> [full_name |-> <<>>, file |-> <<>>, def |-> 0]]

\* pool.FindMessageTypeByName(name): the descriptor, or KeyError
FindMessageTypeByName(files, name) ==
    IF name \in PoolSymbols(files)
    THEN LET fd == CHOOSE f \in files : name \in FileSymbols(f)
             i == CHOOSE j \in 1..Len(fd.message_type) :
                      full_name_of(fd, fd.message_type[j]) = name
         IN [kind |-> "Descriptor",
             desc |-> [full_name |-> name, file |-> fd.name, def |-> fd.message_type[i].def]]
    ELSE [kind |-> "KeyError", desc |-> [full_name |-> <<>>, file |-> <<>>, def |-> 0]]

NoHandle == [full_name |-> <<>>, file |-> <<>>, def |-> 0]

\* GetMessageClass(descriptor): one class per descriptor
GetMessageClass(desc) == desc

\* pool.AddSerializedFile(fd.SerializeToString()) accepts fd: the same file
\* is already there, or its name and its symbols are new and every file it
\* depends on is there; otherwise the pool raises TypeError
AddAccepted(files, fd) ==
    IF fd \in files THEN TRUE
    ELSE /\ \A g \in files : g.name # fd.name
         /\ FileSymbols(fd) \cap PoolSymbols(files) = {}
         /\ \A i \in 1..Len(fd.dependency) : \E g \in files : g.name = fd.dependency[i]

\* a pool in which a file replaces the files that clash with it
AddSerializedFile_replace(files, fd) ==
    {g \in files : g.name # fd.name /\ FileSymbols(g) \cap FileSymbols(fd) = {}} \cup {fd}

\* registry.py:44-49  try: AddSerializedFile ... except (ValueError, TypeError): pass
AddSerializedFile(files, fd) == IF AddAccepted(files, fd) THEN files \cup {fd} ELSE files

\* the exception pool.AddSerializedFile(fd.SerializeToString()) raises:
\* none when it accepts the file, TypeError when it does not
AddRaises(files, fd) == IF AddAccepted(files, fd) THEN "none" ELSE "TypeError"

DigitChars == <<"0", "1", "2", "3", "4", "5", "6", "7", "8", "9">>

RECURSIVE Digits(_)
\* the decimal numeral of n
Digits(n) ==
    IF n < 10 THEN <<DigitChars[n + 1]>>
    ELSE Digits(n \div 10) \o <<DigitChars[(n % 10) + 1]>>

\* the empty dict {}
EmptyDict == [k \in {} |-> <<>>]

\* the values of the keys "image" and "file" of a JSON document as Python
\* has them after resp.json(): None (JSON null), a dict, a list
None == [t |-> "null", v |-> <<>>]
JDict(d) == [t |-> "dict", v |-> d]
JList(l) == [t |-> "list", v |-> l]

\* d.get(k) without a default
dict_get_no_default(d, k, default) == IF k \in DOMAIN d THEN d[k] ELSE None

\* d.get(k, default)
dict_get(d, k, default) == IF k \in DOMAIN d THEN d[k] ELSE default

\* bsr.py:66-68  json_format.ParseDict(file_data, fd, ignore_unknown_fields=True):
\* the fields of FileDescriptorProto found in file_data under their JSON or
\* their proto name; other keys are dropped, absent fields stay empty
ParseDict(file_data) ==
    [name |-> dict_get(file_data, "name", <<>>),
     package |-> dict_get(file_data, "package", <<>>),
     message_type |-> IF "messageType" \in DOMAIN file_data THEN file_data.messageType
                      ELSE dict_get(file_data, "message_type", <<>>),
     dependency |-> dict_get(file_data, "dependency", <<>>)]

\* the message without the status code
ErrorText_no_status(status_code, resp_text) ==
    <<"B", "S", "R", " ", "A", "P", "I", " ", "e", "r", "r", "o", "r", ":", " ">> \o resp_text

\* bsr.py:58  f"BSR API error ({resp.status_code}): {resp.text}"
ErrorText(status_code, resp_text) ==
    <<"B", "S", "R", " ", "A", "P", "I", " ", "e", "r", "r", "o", "r", " ", "(">>
        \o Digits(status_code) \o <<")", ":", " ">> \o resp_text

\* bsr.py:60-71  the part of fetch_descriptor_set after the status test:
\* image = data.get("image", {}) and files = image.get("file", []) (a null
\* image has no get: AttributeError; a null file list is not iterable:
\* TypeError), then one FileDescriptorProto per entry of files, in order
DescriptorSetOf(data) ==
    LET image == dict_get(data, "image", JDict(EmptyDict))
        files == IF image.t = "null" THEN None ELSE dict_get(image.v, "file", JList(<<>>))
    IN IF image.t = "null"
       THEN [kind |-> "AttributeError", message |-> <<>>, fds |-> <<>>]
       ELSE IF files.t = "null"
       THEN [kind |-> "TypeError", message |-> <<>>, fds |-> <<>>]
       ELSE [kind |-> "FileDescriptorSet", message |-> <<>>,
             fds |-> [i \in 1..Len(files.v) |-> ParseDict(files.v[i])]]

\* the status of the response is not looked at
fetch_descriptor_set_any_status(resp) == DescriptorSetOf(resp.json)

\* bsr.py:56-71  BSRClient.fetch_descriptor_set, from the HTTP response resp
\* of session.post on: an Exception carrying status and text unless the
\* status is 200, else the files of the JSON body
fetch_descriptor_set(resp) ==
    IF resp.status_code # 200
    THEN [kind |-> "Exception", message |-> ErrorText(resp.status_code, resp.text),
          fds |-> <<>>]
    ELSE DescriptorSetOf(resp.json)

\* len(self.cache) > MAX_REGISTRY_CACHE_SIZE
CacheFull_gt(c) == Cardinality(DOMAIN c) > MAX_REGISTRY_CACHE_SIZE

\* registry.py:31  len(self.cache) >= MAX_REGISTRY_CACHE_SIZE
CacheFull(c) == Cardinality(DOMAIN c) >= MAX_REGISTRY_CACHE_SIZE

\* the empty dict
EmptyCache == [k \in {} |-> <<>>]

\* the segment after the first "/"
type_name_of_second(type_url) ==
    LET parts == split(type_url, "/") IN parts[IF Len(parts) > 1 THEN 2 ELSE 1]

\* registry.py:72  type_url.split('/')[-1]
type_name_of(type_url) ==
    LET parts == split(type_url, "/") IN parts[Len(parts)]

\* registry.py:77-78  instance = msg_class(); instance.ParseFromString(value):
\* the fields of the wire format in value, in order, as <<number, wire type,
\* v>>, v being the value of a varint, the length of a length-delimited field
\* and 0 for a fixed-width field; a field the class does not declare is kept
\* as an unknown field.
\* Not ok: a field number 0, a wire type other than 0, 1, 2, 5, or a field
\* that runs past the end of value.
DecodeValue(value) ==
    LET buf == RBytes(value)
        Fields[a \in Nat \X Seq(Nat \X Nat \X Nat)] ==
          LET i == a[1]
              tag == ReadVarint(buf, i, 1, 0)
              field == tag.val \div 8
              wt == tag.val % 8
              v == ReadVarint(buf, tag.next, 1, 0)
              fixed == IF wt = 1 THEN 8 ELSE 4
          IN
          IF i >= RLen(buf) THEN [ok |-> TRUE, fields |-> a[2]]
          ELSE IF ~tag.ok THEN [ok |-> FALSE, fields |-> <<>>]
          ELSE IF field = 0 THEN [ok |-> FALSE, fields |-> <<>>]
          ELSE IF wt = 0 THEN
              IF ~v.ok THEN [ok |-> FALSE, fields |-> <<>>]
              ELSE Fields[<<v.next, Append(a[2], <<field, wt, v.val>>)>>]
          ELSE IF wt = 2 THEN
              IF ~v.ok THEN [ok |-> FALSE, fields |-> <<>>]
              ELSE IF v.next + v.val > RLen(buf) THEN [ok |-> FALSE, fields |-> <<>>]
              ELSE Fields[<<v.next + v.val, Append(a[2], <<field, wt, v.val>>)>>]
          ELSE IF wt = 1 \/ wt = 5 THEN
              IF tag.next + fixed > RLen(buf) THEN [ok |-> FALSE, fields |-> <<>>]
              ELSE Fields[<<tag.next + fixed, Append(a[2], <<field, wt, 0>>)>>]
          ELSE [ok |-> FALSE, fields |-> <<>>]
    IN Fields[<<0, <<>>>>]

\* every key is taken to be absent
CacheMiss_always(c, k) == TRUE

\* registry.py:29  repo_id not in self.cache
CacheMiss(c, k) == k \notin DOMAIN c

\* the entries stay
CacheClear_keep(c) == c

\* registry.py:33  self.cache.clear()
CacheClear(c) == EmptyCache

\* the fetched set is not kept
CachePut_noop(c, k, fds) == c

\* registry.py:36  self.cache[repo_id] = fds
CachePut(c, k, fds) == [x \in DOMAIN c \cup {k} |-> IF x = k THEN fds ELSE c[x]]

\* the fallback answers with some message of the pool
FallbackFind_any(files, fds, name) ==
    IF PoolSymbols(files) # {}
    THEN FindMessageTypeByName(files, CHOOSE n \in PoolSymbols(files) : TRUE)
    ELSE FindMessageTypeByName(files, name)

\* a fallback that takes the descriptor from the files of the set itself
FallbackFind_from_set(files, fds, name) ==
    FindMessageTypeByName({fds[i] : i \in 1..Len(fds)}, name)

\* registry.py:59-67  the first message of fds whose package-qualified name
\* equals ref.message is looked up in the pool under that name; with no such
\* message, or when that lookup fails, the KeyError stands
FallbackFind(files, fds, name) ==
    IF \E i \in 1..Len(fds) : name \in FileSymbols(fds[i])
    THEN FindMessageTypeByName(files, name)
    ELSE [kind |-> "KeyError", desc |-> [full_name |-> <<>>, file |-> <<>>, def |-> 0]]

----------------------------------------------------------------------------
(* Framed transport: one writer, one reader, one byte stream *)

\* payload sizes that put the serialized body at the limit and one byte over it
\* (1 tag byte + 4 length bytes + payload)
BigPayload == <<[b |-> 0, n |-> MAX_MESSAGE_SIZE - 5]>>
OverPayload == <<[b |-> 0, n |-> MAX_MESSAGE_SIZE - 4]>>

\* payload sizes that put the serialized body one byte under 2^24 bytes and
\* at 2^24 bytes
Under16Payload == <<[b |-> 0, n |-> 16777216 - 6]>>
At16Payload == <<[b |-> 0, n |-> 16777216 - 5]>>

\* the envelopes the writer is given
Msgs ==
    { [id |-> 0, set |-> FALSE, payload |-> <<>>],
      [id |-> 300, set |-> TRUE, payload |-> <<[b |-> 0, n |-> 2]>>],
      [id |-> 0, set |-> TRUE, payload |-> BigPayload] }

\* byte strings a foreign peer may put on the stream
RawChunks ==
    { RBytes(<<0, 0, 0>>), RBytes(<<0, 0, 0, 5, 1, 2>>), RBytes(<<2, 0, 0, 1, 8, 1>>) }

\* the latest read_message call: how it ended, the stream positions before and
\* after it, whether the stream had ended; log lists kind, msg, from and to
\* of every call made on the reader, this one included
NoCall ==
    [kind |-> "NoCall", msg |-> NoMessage, from |-> 0, to |-> 0, atEnd |-> FALSE,
     log |-> <<>>]

\* a fresh stream of kind s (tests/test_stdio.py:8 buf = io.BytesIO(), or the
\* pipe of examples/blind_client.py:30-36), with a StdioWriter and a
\* StdioReader constructed on it: nothing written, nothing read, both ends
\* open
StdioFresh(s) ==
    /\ wire = <<>>
    /\ rpos = 0
    /\ closed = FALSE
    /\ last = NoCall
    /\ sent = <<>>
    /\ nraw = 0
    /\ nreads = 0
    /\ sink = s

\* no read_message call is between its two reads
NoRead == [pc |-> "idle", from |-> 0, length |-> 0]

\* the reader's end has had every byte and the writing end is closed
Ended == closed /\ outbox = <<>>

\* how a read_message call that ends is recorded
Returned(kind, msg, from, to) ==
    [kind |-> kind, msg |-> msg, from |-> from, to |-> to, atEnd |-> Ended,
     log |-> Append(last.log, [kind |-> kind, msg |-> msg, from |-> from, to |-> to])]

\* the largest write a pipe takes in one piece, however full it is
PIPE_BUF == 4096

\* the numbers of bytes the sink s may take of a write of n bytes before the
\* writer goes on or waits inside write: the io.BytesIO of
\* tests/test_stdio.py:8-14 takes every write whole; the pipe of
\* examples/blind_client.py:30-38 takes a write of at most PIPE_BUF bytes
\* whole and of a larger one any part, the writer waiting for the reader to
\* make room before the next part
SinkTakes(s, n) == IF s = "BytesIO" \/ n <= PIPE_BUF THEN {n} ELSE 1..n

\* stdio.py:38-43  writer.write_message(m) up to the return of its first
\* operation on the sink, self.writer.write(len_buf), which every sink takes
\* whole; the bytes go on the stream where it ends, and the calls on one
\* writer follow one another
StdioWriter_write_message(m) ==
    /\ ~closed
    /\ wtodo = <<>>
    /\ Len(sent) < MaxFrames
    /\ LET ops == write_message_ops(m)
           first == Head(ops)
       IN /\ wire' = RCat(wire, first.data)
          /\ wtodo' = Tail(ops)
          /\ wops' = Append(wops, first)
    /\ sent' = Append(sent, [msg |-> m, off |-> RLen(wire)])
    /\ UNCHANGED <<rpos, closed, last, nraw, nreads, sink, outbox, rcall>>
    /\ UNCHANGED <<parseVars, regVars, fetchVars, listVars, grpcVars>>

\* the numbers of bytes the sink may take in the next step of the call under
\* way: none for a flush; of a write that begins or goes on, what the sink
\* takes of the bytes that are left
NextTakes ==
    IF wtodo = <<>> THEN {}
    ELSE IF Head(wtodo).op = "flush" THEN {0}
    ELSE SinkTakes(sink, RLen(Head(wtodo).data))

\* stdio.py:46, 47  the call goes on: self.writer.write(data), of which the
\* sink takes k bytes in this step (what is left stays to be written, and
\* the writer waits inside write as long as a part is left), then
\* self.writer.flush(), after which the call returns
StdioWriter_step(k) ==
    /\ ~closed
    /\ wtodo # <<>>
    /\ LET op == Head(wtodo) IN
        /\ k \in NextTakes
        /\ wire' = RCat(wire, RTake(op.data, k))
        /\ wtodo' = IF op.op # "flush" /\ k < RLen(op.data)
                    THEN <<[op |-> "rest", data |-> RDrop(op.data, k)]>> \o Tail(wtodo)
                    ELSE Tail(wtodo)
        /\ wops' = IF op.op = "rest" THEN wops ELSE Append(wops, op)
    /\ UNCHANGED <<rpos, closed, last, sent, nraw, nreads, sink, outbox, rcall>>
    /\ UNCHANGED <<parseVars, regVars, fetchVars, listVars, grpcVars>>

\* a peer that does not use StdioWriter puts raw bytes on the stream: on a
\* pipe at any moment, also while a write_message call is under way; into a
\* BytesIO, which one thread fills, between the calls
PeerRawWrite(chunk) ==
    /\ ~closed
    /\ sink = "BytesIO" => wtodo = <<>>
    /\ nraw < MaxRaw
    /\ wire' = RCat(wire, chunk)
    /\ nraw' = nraw + 1
    /\ UNCHANGED <<rpos, closed, last, sent, nreads, sink>>
    /\ UNCHANGED <<parseVars, regVars, fetchVars, listVars, pipeVars, grpcVars>>

\* the writing end is closed: end of stream follows the bytes written. A
\* write_message call that was under way on a pipe writes no more; a BytesIO
\* is done with once the calls have returned and it is rewound for the
\* reader (tests/test_stdio.py:14-17)
CloseStream ==
    /\ ~closed
    /\ sink = "BytesIO" => wtodo = <<>>
    /\ closed' = TRUE
    /\ UNCHANGED <<wire, rpos, last, sent, nraw, nreads, sink>>
    /\ UNCHANGED <<parseVars, regVars, fetchVars, listVars, pipeVars, grpcVars>>

\* stdio.py:13-23  reader.read_message() up to the length test: the call
\* waits in read(4) until four bytes are there or the stream has ended; a
\* BytesIO is read once it has been written and rewound
StdioReader_read_message ==
    /\ rcall.pc = "idle"
    /\ sink = "BytesIO" => closed
    /\ nreads < MaxReads
    /\ BlockingReadReturns(wire, rpos, 4, Ended)
    /\ LET len_buf == io_read(wire, rpos, 4) IN
        /\ rpos' = rpos + RLen(len_buf)
        /\ IF PrefixOutcome(len_buf) # "ok"
           THEN /\ last' = Returned(PrefixOutcome(len_buf), NoMessage, rpos,
                                    rpos + RLen(len_buf))
                /\ UNCHANGED rcall
           ELSE IF ExceedsLimit(len_buf)
           THEN /\ last' = Returned("FrameTooLarge", NoMessage, rpos, rpos + 4)
                /\ UNCHANGED rcall
           ELSE /\ rcall' = [pc |-> "body", from |-> rpos, length |-> struct_unpack(len_buf)]
                /\ UNCHANGED last
    /\ nreads' = nreads + 1
    /\ UNCHANGED <<wire, closed, sent, nraw, sink, outbox, wtodo, wops>>
    /\ UNCHANGED <<parseVars, regVars, fetchVars, listVars, grpcVars>>

\* stdio.py:26-32  the call goes on: it waits in read(length) until the body
\* is there or the stream has ended, then parses
StdioReader_read_body ==
    /\ rcall.pc = "body"
    /\ BlockingReadReturns(wire, rpos, rcall.length, Ended)
    /\ LET msg_buf == io_read(wire, rpos, rcall.length)
           decoded == ParseFromString(msg_buf)
       IN
        /\ rpos' = rpos + RLen(msg_buf)
        /\ IF BodyIncomplete(msg_buf, rcall.length)
           THEN last' = Returned("IncompleteBody", NoMessage, rcall.from, rpos + RLen(msg_buf))
           ELSE IF ~decoded.ok
           THEN last' = Returned("DecodeError", NoMessage, rcall.from, rpos + RLen(msg_buf))
           ELSE last' = Returned("Message", decoded.msg, rcall.from, rpos + RLen(msg_buf))
    /\ rcall' = NoRead
    /\ UNCHANGED <<wire, closed, sent, nraw, nreads, sink, outbox, wtodo, wops>>
    /\ UNCHANGED <<parseVars, regVars, fetchVars, listVars, grpcVars>>

\* the envelopes of ms whose writing is followed on the sink the writer has:
\* on a BytesIO all, on a pipe those it takes in one piece (of a larger body
\* a pipe may take any of 1..n bytes at a time, more than can be followed)
Followed(ms) == {m \in ms : sink = "BytesIO" \/ RLen(SerializeToString(m)) <= PIPE_BUF}

NextStdio ==
    \/ \E m \in Followed(Msgs) : StdioWriter_write_message(m)
    \/ \E k \in NextTakes : StdioWriter_step(k)
    \/ \E chunk \in RawChunks : PeerRawWrite(chunk)
    \/ CloseStream
    \/ StdioReader_read_message
    \/ StdioReader_read_body

\* a reader on a stream of a foreign peer's raw bytes and of small frames
\* (the envelopes with bodies of 0 and of 7 bytes)
NextReader ==
    \/ \E m \in {e \in Msgs : RLen(SerializeToString(e)) <= PIPE_BUF} :
           StdioWriter_write_message(m)
    \/ \E k \in NextTakes : StdioWriter_step(k)
    \/ \E chunk \in RawChunks : PeerRawWrite(chunk)
    \/ CloseStream
    \/ StdioReader_read_message
    \/ StdioReader_read_body

\* envelopes whose bodies have 0, 7, 2^24 - 1, 2^24, MAX_MESSAGE_SIZE and
\* MAX_MESSAGE_SIZE + 1 bytes
PrefixMsgs ==
    { [id |-> 0, set |-> FALSE, payload |-> <<>>],
      [id |-> 300, set |-> TRUE, payload |-> <<[b |-> 0, n |-> 2]>>],
      [id |-> 0, set |-> TRUE, payload |-> Under16Payload],
      [id |-> 0, set |-> TRUE, payload |-> At16Payload],
      [id |-> 0, set |-> TRUE, payload |-> BigPayload],
      [id |-> 0, set |-> TRUE, payload |-> OverPayload] }

\* a stream that carries only frames of StdioWriter, of these envelopes
NextPrefix ==
    \/ \E m \in Followed(PrefixMsgs) : StdioWriter_write_message(m)
    \/ \E k \in NextTakes : StdioWriter_step(k)
    \/ CloseStream
    \/ StdioReader_read_message
    \/ StdioReader_read_body

----------------------------------------------------------------------------
(* Framed transport over an unbuffered pipe (examples/blind_client.py:30-39, *)
(* Popen(..., bufsize=0)): the writer's sink operations are separate steps,  *)
(* the bytes reach the reader's end in chunks, and a read returns what has   *)
(* arrived                                                                   *)

\* nothing is in the pipe and no call is under way on either end
PipeIdle ==
    /\ outbox = <<>>
    /\ wtodo = <<>>
    /\ wops = <<>>
    /\ rcall = NoRead

\* the envelopes written to the pipe: bodies of 0 and of 7 bytes
PipeMsgs ==
    { [id |-> 0, set |-> FALSE, payload |-> <<>>],
      [id |-> 300, set |-> TRUE, payload |-> <<[b |-> 0, n |-> 2]>>] }

\* writer.write_message(m) is called (stdio.py:38-42): the body is serialized
\* and the prefix packed
Writer_call(m) ==
    /\ ~closed
    /\ wtodo = <<>>
    /\ Len(sent) < MaxFrames
    /\ wtodo' = write_message_ops(m)
    /\ sent' = Append(sent, [msg |-> m, off |-> RLen(wire) + RLen(outbox)])
    /\ UNCHANGED <<wire, rpos, closed, last, nraw, nreads, sink, outbox, wops, rcall>>
    /\ UNCHANGED <<parseVars, regVars, fetchVars, listVars, grpcVars>>

\* stdio.py:43, 46, 47  the next operation of the call on the sink; the sink
\* is unbuffered, so written bytes go to the pipe and flush() moves nothing
Writer_step ==
    /\ wtodo # <<>>
    /\ outbox' = IF Head(wtodo).op = "write" THEN RCat(outbox, Head(wtodo).data) ELSE outbox
    /\ wops' = Append(wops, Head(wtodo))
    /\ wtodo' = Tail(wtodo)
    /\ UNCHANGED <<wire, rpos, closed, last, sent, nraw, nreads, sink, rcall>>
    /\ UNCHANGED <<parseVars, regVars, fetchVars, listVars, grpcVars>>

\* the pipe hands the next k bytes to the reader's end
Deliver(k) ==
    /\ k \in 1..RLen(outbox)
    /\ wire' = RCat(wire, RTake(outbox, k))
    /\ outbox' = RDrop(outbox, k)
    /\ UNCHANGED <<rpos, closed, last, sent, nraw, nreads, sink, wtodo, wops, rcall>>
    /\ UNCHANGED <<parseVars, regVars, fetchVars, listVars, grpcVars>>

\* the writing end is closed, between two write_message calls
ClosePipe ==
    /\ ~closed
    /\ wtodo = <<>>
    /\ closed' = TRUE
    /\ UNCHANGED <<wire, rpos, last, sent, nraw, nreads, sink, outbox, wtodo, wops, rcall>>
    /\ UNCHANGED <<parseVars, regVars, fetchVars, listVars, grpcVars>>

\* stdio.py:13-23  read_message up to the length test: read(4) returns the
\* bytes that have arrived, at most four
Reader_prefix ==
    /\ rcall.pc = "idle"
    /\ nreads < MaxReads
    /\ RawReadReturns(wire, rpos, 4, Ended)
    /\ LET len_buf == io_read(wire, rpos, 4) IN
        /\ rpos' = rpos + RLen(len_buf)
        /\ IF PrefixOutcome(len_buf) # "ok"
           THEN /\ last' = Returned(PrefixOutcome(len_buf), NoMessage, rpos,
                                    rpos + RLen(len_buf))
                /\ UNCHANGED rcall
           ELSE IF ExceedsLimit(len_buf)
           THEN /\ last' = Returned("FrameTooLarge", NoMessage, rpos, rpos + 4)
                /\ UNCHANGED rcall
           ELSE /\ rcall' = [pc |-> "body", from |-> rpos, length |-> struct_unpack(len_buf)]
                /\ UNCHANGED last
    /\ nreads' = nreads + 1
    /\ UNCHANGED <<wire, closed, sent, nraw, sink, outbox, wtodo, wops>>
    /\ UNCHANGED <<parseVars, regVars, fetchVars, listVars, grpcVars>>

\* stdio.py:26-32  read_message from the read of the body on: read(length)
\* returns the bytes that have arrived, at most length
Reader_body ==
    /\ rcall.pc = "body"
    /\ RawReadReturns(wire, rpos, rcall.length, Ended)
    /\ LET msg_buf == io_read(wire, rpos, rcall.length)
           decoded == ParseFromString(msg_buf)
       IN
        /\ rpos' = rpos + RLen(msg_buf)
        /\ IF BodyIncomplete(msg_buf, rcall.length)
           THEN last' = Returned("IncompleteBody", NoMessage, rcall.from, rpos + RLen(msg_buf))
           ELSE IF ~decoded.ok
           THEN last' = Returned("DecodeError", NoMessage, rcall.from, rpos + RLen(msg_buf))
           ELSE last' = Returned("Message", decoded.msg, rcall.from, rpos + RLen(msg_buf))
    /\ rcall' = NoRead
    /\ UNCHANGED <<wire, closed, sent, nraw, nreads, sink, outbox, wtodo, wops>>
    /\ UNCHANGED <<parseVars, regVars, fetchVars, listVars, grpcVars>>

NextPipe ==
    \/ \E m \in PipeMsgs : Writer_call(m)
    \/ Writer_step
    \/ \E k \in 1..RLen(outbox) : Deliver(k)
    \/ ClosePipe
    \/ Reader_prefix
    \/ Reader_body

\* the writing end alone: write_message calls, their sink operations, the
\* pipe taking the bytes on, the close of the writing end
NextWriter ==
    \/ \E m \in PipeMsgs : Writer_call(m)
    \/ Writer_step
    \/ \E k \in 1..RLen(outbox) : Deliver(k)
    \/ ClosePipe

----------------------------------------------------------------------------
(* mcp/grpc_client.py: GRPCClient used in a with statement *)

\* the exceptions the body of the with block may raise by itself
BodyExceptions == {"ValueError", "KeyboardInterrupt"}

\* the stub calls GRPCClient offers
StubCalls == {"initialize", "list_tools", "call_tool"}

\* grpc_client.py:52-53  self.channel.close(): the call is counted and the
\* channel is closed; on a closed channel the call does nothing more
ChannelClose(ch) == [state |-> "closed", closes |-> ch.closes + 1]

\* no GRPCClient has been constructed
GrpcIdle ==
    /\ gpc = "none"
    /\ channel = [state |-> "none", closes |-> 0]
    /\ rpcs = <<>>
    /\ exc = "none"

\* grpc_client.py:7-13  GRPCClient(target, use_secure): the channel is made
GRPCClient_init ==
    /\ gpc = "none"
    /\ gpc' = "constructed"
    /\ channel' = [state |-> "open", closes |-> 0]
    /\ UNCHANGED <<rpcs, exc>>
    /\ UNCHANGED <<stdioVars, parseVars, regVars, fetchVars, listVars, pipeVars>>

\* grpc_client.py:15-17  __enter__: the with block is entered
GRPCClient_enter ==
    /\ gpc = "constructed"
    /\ gpc' = "body"
    /\ UNCHANGED <<channel, rpcs, exc>>
    /\ UNCHANGED <<stdioVars, parseVars, regVars, fetchVars, listVars, pipeVars>>

\* grpc_client.py:31-50  a stub call, inside a with block or on a client
\* used without one (scripts/test_grpc_interop.py:12-20): it returns, or
\* raises RpcError, which leaves the body of the with block
GRPCClient_rpc(name, fails) ==
    /\ gpc \in {"constructed", "body"}
    /\ Len(rpcs) < MaxRpcs
    /\ rpcs' = Append(rpcs, name)
    /\ gpc' = IF fails /\ gpc = "body" THEN "leaving" ELSE gpc
    /\ exc' = IF fails THEN "RpcError" ELSE exc
    /\ UNCHANGED channel
    /\ UNCHANGED <<stdioVars, parseVars, regVars, fetchVars, listVars, pipeVars>>

\* grpc_client.py:52-53  client.close() called by the user, as in
\* scripts/discovery_benchmark.py:298 and scripts/test_grpc_interop.py:20
GRPCClient_close ==
    /\ gpc \in {"constructed", "body"}
    /\ channel.closes < MaxRpcs
    /\ channel' = ChannelClose(channel)
    /\ UNCHANGED <<gpc, rpcs, exc>>
    /\ UNCHANGED <<stdioVars, parseVars, regVars, fetchVars, listVars, pipeVars>>

\* the body ends normally (e = "none") or raises e
BodyLeaves(e) ==
    /\ gpc = "body"
    /\ gpc' = "leaving"
    /\ exc' = e
    /\ UNCHANGED <<channel, rpcs>>
    /\ UNCHANGED <<stdioVars, parseVars, regVars, fetchVars, listVars, pipeVars>>

\* __exit__ that returns True: the exception of the body is suppressed
GRPCClient_exit_suppress ==
    /\ gpc = "leaving"
    /\ channel' = ChannelClose(channel)
    /\ exc' = "none"
    /\ gpc' = "left"
    /\ UNCHANGED rpcs
    /\ UNCHANGED <<stdioVars, parseVars, regVars, fetchVars, listVars, pipeVars>>

\* grpc_client.py:19-22, 52-53  __exit__: self.close() closes the channel,
\* return False lets the exception of the body, if any, go on to the caller
GRPCClient_exit ==
    /\ gpc = "leaving"
    /\ channel' = ChannelClose(channel)
    /\ gpc' = "left"
    /\ UNCHANGED <<rpcs, exc>>
    /\ UNCHANGED <<stdioVars, parseVars, regVars, fetchVars, listVars, pipeVars>>

\* grpc_client.py:24-29, 52-53  __del__ once the object is unreachable, after
\* the with block or without one: close() again, inside try/except, so that
\* nothing leaves the destructor
GRPCClient_del ==
    /\ gpc \in {"constructed", "left"}
    /\ channel' = ChannelClose(channel)
    /\ gpc' = "deleted"
    /\ UNCHANGED <<rpcs, exc>>
    /\ UNCHANGED <<stdioVars, parseVars, regVars, fetchVars, listVars, pipeVars>>

NextGrpc ==
    \/ GRPCClient_init
    \/ GRPCClient_enter
    \/ \E name \in StubCalls : \E fails \in BOOLEAN : GRPCClient_rpc(name, fails)
    \/ GRPCClient_close
    \/ \E e \in BodyExceptions \cup {"none"} : BodyLeaves(e)
    \/ GRPCClient_exit
    \/ GRPCClient_del

----------------------------------------------------------------------------
(* One Registry, the remote schema registry behind it, and its callers *)

Workers == 1..MaxWorkers

\* files the remote registry serves
FileM ==
    [name |-> <<"m">>, package |-> <<"p">>,
     message_type |-> <<[name |-> <<"M">>, def |-> 1], [name |-> <<"N">>, def |-> 1]>>,
     dependency |-> <<>>]
\* another file of the same package, with M redefined and Q new
FileMv ==
    [name |-> <<"n">>, package |-> <<"p">>,
     message_type |-> <<[name |-> <<"M">>, def |-> 2], [name |-> <<"Q">>, def |-> 1]>>,
     dependency |-> <<>>]
FileY ==
    [name |-> <<"y">>, package |-> <<"q">>,
     message_type |-> <<[name |-> <<"Y">>, def |-> 1]>>,
     dependency |-> <<>>]
\* a file that imports FileY
FileZ ==
    [name |-> <<"z">>, package |-> <<"q">>,
     message_type |-> <<[name |-> <<"Z">>, def |-> 1]>>,
     dependency |-> <<<<"y">>>>]

\* image.file of the remote registry's answer for owner/repository@version;
\* any other repository has an empty image
RemoteFiles(ref) ==
    IF ref.owner = <<"a">> /\ ref.repository = <<"t">> /\ ref.version = DefaultVersion
        THEN <<FileM>>
    ELSE IF ref.owner = <<"a">> /\ ref.repository = <<"t">> /\ ref.version = <<"v">>
        THEN <<FileMv>>
    ELSE IF ref.owner = <<"a">> /\ ref.repository = <<"u">> /\ ref.version = DefaultVersion
        THEN <<FileY, FileZ>>
    ELSE <<>>

\* json_format.MessageToDict as the remote registry applies it to a file of
\* its image, with the extension field the registry adds
MessageToDict(fd) ==
    [name |-> fd.name, package |-> fd.package, messageType |-> fd.message_type,
     dependency |-> fd.dependency, bufExtension |-> <<>>]

\* the HTTP responses session.post may give for ref: 200 with the image, or
\* 404 "no"
Responses(ref) ==
    {[status_code |-> 200, text |-> <<>>,
      json |-> [image |-> JDict([file |-> JList([i \in 1..Len(RemoteFiles(ref)) |->
                                        MessageToDict(RemoteFiles(ref)[i])])])]],
     [status_code |-> 404, text |-> <<"n", "o">>, json |-> EmptyDict]}

\* "buf.build/f/r/z:<i>": a reference into a repository of its own, whose
\* image is empty
FillerText(i) == SchemePrefix \o <<"f", "/", "r", "/", "z", ":">> \o Digits(i)
FillerKey(i) == repo_id_of(BSRRef_parse(FillerText(i)).ref)

\* "buf.build/a/t/p.M", "buf.build/a/t/p.M:v", "buf.build/a/t/p.Q:v",
\* "buf.build/a/u/q.X"
TextM == SchemePrefix \o <<"a", "/", "t", "/", "p", ".", "M">>
TextMv == SchemePrefix \o <<"a", "/", "t", "/", "p", ".", "M", ":", "v">>
TextQv == SchemePrefix \o <<"a", "/", "t", "/", "p", ".", "Q", ":", "v">>
TextX == SchemePrefix \o <<"a", "/", "u", "/", "q", ".", "X">>
\* "buf-build/a/t/p.M": the scheme prefix misspelt
TextBad == <<"b", "u", "f", "-", "b", "u", "i", "l", "d", "/", "a", "/", "t", "/", "p", ".", "M">>

\* the Any messages callers pass to unpack: type_url "t/p.M" with an empty
\* value, with field 1 = 1 and with a cut-off field; "t/x/p.N" and "t/q.X"
\* with an empty value
AnyMsgs ==
    {[type_url |-> <<"t", "/", "p", ".", "M">>, value |-> <<>>],
     [type_url |-> <<"t", "/", "p", ".", "M">>, value |-> <<8, 1>>],
     [type_url |-> <<"t", "/", "p", ".", "M">>, value |-> <<8>>],
     [type_url |-> <<"t", "/", "x", "/", "p", ".", "N">>, value |-> <<>>],
     [type_url |-> <<"t", "/", "q", ".", "X">>, value |-> <<>>]}

\* the reference texts callers pass to resolve
RefTexts ==
    {TextM, TextMv, TextQv, TextX, TextBad, FillerText(1),
     FillerText(MAX_REGISTRY_CACHE_SIZE + 1), FillerText(MAX_REGISTRY_CACHE_SIZE + 2)}

\* the cache after k resolve calls for the filler references 1..k (each call
\* fetched an empty image, stored it, and failed with KeyError)
Prefilled(k) == [key \in {FillerKey(i) : i \in 1..k} |-> <<>>]

\* the locals of a resolve call, and what the call has done so far: fetch is
\* "none", "ok" or "failed", nfetch counts the calls of fetch_descriptor_set,
\* status is the HTTP status the fetch saw (0: no fetch), hit tells that the
\* set came from the cache, pool0 and cache0 are the pool and the cache the
\* call started with, seq is the number of the call in the order in which
\* the calls began (0: no call)
IdleCall ==
    [text |-> <<>>, ref |-> NoRef, repo_id |-> <<>>, fds |-> <<>>, idx |-> 0, seq |-> 0,
     fetch |-> "none", evicted |-> FALSE, nfetch |-> 0, status |-> 0, hit |-> FALSE,
     pool0 |-> {}, cache0 |-> EmptyCache, instance |-> <<>>]

\* a Registry whose pool is empty and whose cache holds 0, N-1 or N entries
RegistryFresh ==
    /\ pool = {}
    /\ cache \in {Prefilled(0), Prefilled(MAX_REGISTRY_CACHE_SIZE - 1),
                  Prefilled(MAX_REGISTRY_CACHE_SIZE)}
    /\ pc = [w \in Workers |-> "idle"]
    /\ call = [w \in Workers |-> IdleCall]
    /\ hist = <<>>
    /\ ncalls = 0

\* Registry(client) right after construction
RegistryIdle ==
    /\ pool = {}
    /\ cache = EmptyCache
    /\ pc = [w \in Workers |-> "idle"]
    /\ call = [w \in Workers |-> IdleCall]
    /\ hist = <<>>
    /\ ncalls = 0

AllIdle == \A w \in Workers : pc[w] = "idle"

\* the two latest entries of h followed by rec
Latest(h, rec) == IF Len(h) < 2 THEN Append(h, rec) ELSE <<h[2], rec>>

\* what a finished call leaves in hist: the operation, its argument, how it
\* ended, what it did, the pool and the cache before and after it, and the
\* names for which this or an earlier resolve call returned a class
Outcome(op, c, kind, handle) ==
    [op |-> op, text |-> c.text, kind |-> kind, handle |-> handle,
     instance |-> c.instance, seq |-> c.seq,
     resolved |-> (IF hist = <<>> THEN {} ELSE hist[Len(hist)].resolved)
                      \cup (IF kind = "Handle" THEN {handle.full_name} ELSE {}),
     fetch |-> c.fetch, evicted |-> c.evicted,
     ref |-> c.ref, repo_id |-> c.repo_id, fds |-> c.fds,
     nfetch |-> c.nfetch, status |-> c.status, hit |-> c.hit,
     pool0 |-> c.pool0, cache0 |-> c.cache0,
     pool1 |-> pool, cache1 |-> cache]

\* resolve returns or raises: kind is "Handle", "MalformedReference"
\* (ValueError), "SchemaFetchFailed" (Exception of the fetch), "TypeNotFound"
\* (KeyError of the pool) or "CacheKeyError" (KeyError of self.cache[repo_id])
Finish(w, c, kind, handle) ==
    /\ hist' = Latest(hist, Outcome("resolve", c, kind, handle))
    /\ pc' = [pc EXCEPT ![w] = "idle"]
    /\ call' = [call EXCEPT ![w] = IdleCall]

\* the pool is not asked first: every well-formed reference goes on to the
\* cache
resolve_begin_cache_first(w, t) ==
    /\ pc[w] = "idle"
    /\ ncalls < MaxCalls
    /\ ncalls' = ncalls + 1
    /\ LET p == BSRRef_parse(t)
           c == [IdleCall EXCEPT !.text = t, !.ref = p.ref, !.seq = ncalls + 1,
                                 !.pool0 = pool, !.cache0 = cache]
       IN IF p.kind = "ValueError" THEN Finish(w, c, "MalformedReference", NoHandle)
          ELSE /\ pc' = [pc EXCEPT ![w] = "check"]
               /\ call' = [call EXCEPT ![w] = c]
               /\ UNCHANGED hist
    /\ UNCHANGED <<pool, cache>>
    /\ UNCHANGED <<stdioVars, parseVars, fetchVars, listVars, pipeVars, grpcVars>>

\* registry.py:18-25  parse the reference, look the message up in the pool
resolve_begin(w, t) ==
    /\ pc[w] = "idle"
    /\ ncalls < MaxCalls
    /\ ncalls' = ncalls + 1
    /\ LET p == BSRRef_parse(t)
           c == [IdleCall EXCEPT !.text = t, !.ref = p.ref, !.seq = ncalls + 1,
                                 !.pool0 = pool, !.cache0 = cache]
           d == FindMessageTypeByName(pool, p.ref.message)
       IN IF p.kind = "ValueError" THEN Finish(w, c, "MalformedReference", NoHandle)
          ELSE IF d.kind = "Descriptor" THEN Finish(w, c, "Handle", GetMessageClass(d.desc))
          ELSE /\ pc' = [pc EXCEPT ![w] = "check"]
               /\ call' = [call EXCEPT ![w] = c]
               /\ UNCHANGED hist
    /\ UNCHANGED <<pool, cache>>
    /\ UNCHANGED <<stdioVars, parseVars, fetchVars, listVars, pipeVars, grpcVars>>

\* registry.py:28-29  repo_id = ...; if repo_id not in self.cache
resolve_check(w) ==
    /\ pc[w] = "check"
    /\ LET k == repo_id_of(call[w].ref) IN
        /\ call' = [call EXCEPT ![w].repo_id = k]
        /\ pc' = [pc EXCEPT ![w] = IF CacheMiss(cache, k) THEN "evict" ELSE "hit"]
    /\ UNCHANGED <<pool, cache, hist, ncalls>>
    /\ UNCHANGED <<stdioVars, parseVars, fetchVars, listVars, pipeVars, grpcVars>>

\* registry.py:31  if len(self.cache) >= MAX_REGISTRY_CACHE_SIZE
resolve_evict(w) ==
    /\ pc[w] = "evict"
    /\ pc' = [pc EXCEPT ![w] = IF CacheFull(cache) THEN "clear" ELSE "fetch"]
    /\ UNCHANGED <<pool, cache, call, hist, ncalls>>
    /\ UNCHANGED <<stdioVars, parseVars, fetchVars, listVars, pipeVars, grpcVars>>

\* registry.py:32-33  self.cache.clear()
resolve_clear(w) ==
    /\ pc[w] = "clear"
    /\ cache' = CacheClear(cache)
    /\ call' = [call EXCEPT ![w].evicted = TRUE]
    /\ pc' = [pc EXCEPT ![w] = "fetch"]
    /\ UNCHANGED <<pool, hist, ncalls>>
    /\ UNCHANGED <<stdioVars, parseVars, fetchVars, listVars, pipeVars, grpcVars>>

\* registry.py:35  fds = self.client.fetch_descriptor_set(ref)
resolve_fetch(w) ==
    /\ pc[w] = "fetch"
    /\ \E resp \in Responses(call[w].ref) :
        LET r == fetch_descriptor_set(resp)
            c == [call[w] EXCEPT !.nfetch = call[w].nfetch + 1, !.status = resp.status_code]
        IN
        IF r.kind # "FileDescriptorSet"
        THEN /\ Finish(w, [c EXCEPT !.fetch = "failed"], "SchemaFetchFailed", NoHandle)
        ELSE /\ call' = [call EXCEPT ![w] = [c EXCEPT !.fds = r.fds, !.fetch = "ok"]]
             /\ pc' = [pc EXCEPT ![w] = "store"]
             /\ UNCHANGED hist
    /\ UNCHANGED <<pool, cache, ncalls>>
    /\ UNCHANGED <<stdioVars, parseVars, fetchVars, listVars, pipeVars, grpcVars>>

\* registry.py:36  self.cache[repo_id] = fds
resolve_store(w) ==
    /\ pc[w] = "store"
    /\ cache' = CachePut(cache, call[w].repo_id, call[w].fds)
    /\ call' = [call EXCEPT ![w].idx = 1]
    /\ pc' = [pc EXCEPT ![w] = "add"]
    /\ UNCHANGED <<pool, hist, ncalls>>
    /\ UNCHANGED <<stdioVars, parseVars, fetchVars, listVars, pipeVars, grpcVars>>

\* registry.py:38  fds = self.cache[repo_id]
resolve_hit(w) ==
    /\ pc[w] = "hit"
    /\ IF call[w].repo_id \in DOMAIN cache
       THEN /\ call' = [call EXCEPT ![w].fds = cache[call[w].repo_id], ![w].idx = 1,
                                    ![w].hit = TRUE]
            /\ pc' = [pc EXCEPT ![w] = "add"]
            /\ UNCHANGED hist
       ELSE Finish(w, call[w], "CacheKeyError", NoHandle)
    /\ UNCHANGED <<pool, cache, ncalls>>
    /\ UNCHANGED <<stdioVars, parseVars, fetchVars, listVars, pipeVars, grpcVars>>

\* registry.py:43-49  one round of `for fd in fds.file`: the file is added,
\* or the pool raises and the except clause of line 46 takes the exception;
\* (ValueError, TypeError); an exception of another class is not caught
\* there and ends the call (a KeyError as "TypeNotFound", anything else as
\* "PoolError")
resolve_add(w) ==
    /\ pc[w] = "add"
    /\ call[w].idx <= Len(call[w].fds)
    /\ LET raised == AddRaises(pool, call[w].fds[call[w].idx]) IN
       IF raised \in {"none", "ValueError", "TypeError"}
       THEN /\ pool' = AddSerializedFile(pool, call[w].fds[call[w].idx])
            /\ call' = [call EXCEPT ![w].idx = call[w].idx + 1]
            /\ UNCHANGED <<pc, hist>>
       ELSE /\ Finish(w, call[w], IF raised = "KeyError" THEN "TypeNotFound" ELSE "PoolError",
                      NoHandle)
            /\ UNCHANGED pool
    /\ UNCHANGED <<cache, ncalls>>
    /\ UNCHANGED <<stdioVars, parseVars, fetchVars, listVars, pipeVars, grpcVars>>

\* registry.py:52-55  look the message up again once the loop is over
resolve_find(w) ==
    /\ pc[w] = "add"
    /\ call[w].idx > Len(call[w].fds)
    /\ LET d == FindMessageTypeByName(pool, call[w].ref.message) IN
       IF d.kind = "Descriptor" THEN Finish(w, call[w], "Handle", GetMessageClass(d.desc))
       ELSE /\ pc' = [pc EXCEPT ![w] = "fallback"]
            /\ UNCHANGED <<call, hist>>
    /\ UNCHANGED <<pool, cache, ncalls>>
    /\ UNCHANGED <<stdioVars, parseVars, fetchVars, listVars, pipeVars, grpcVars>>

\* registry.py:59-67  the first message of fds whose package-qualified name
\* equals ref.message is looked up under that name; a KeyError of that lookup
\* or no such message ends the call with KeyError
resolve_fallback(w) ==
    /\ pc[w] = "fallback"
    /\ LET d == FallbackFind(pool, call[w].fds, call[w].ref.message)
       IN IF d.kind = "Descriptor"
          THEN Finish(w, call[w], "Handle", GetMessageClass(d.desc))
          ELSE Finish(w, call[w], "TypeNotFound", NoHandle)
    /\ UNCHANGED <<pool, cache, ncalls>>
    /\ UNCHANGED <<stdioVars, parseVars, fetchVars, listVars, pipeVars, grpcVars>>

\* an unpack that resolves: on a miss it adds the files of the set cached
\* last to the pool
unpack_fetching(w, any_msg) ==
    /\ pc[w] = "idle"
    /\ ncalls < MaxCalls
    /\ ncalls' = ncalls + 1
    /\ LET d == FindMessageTypeByName(pool, type_name_of(any_msg.type_url))
           c == [IdleCall EXCEPT !.text = any_msg.type_url, !.seq = ncalls + 1,
                                 !.pool0 = pool, !.cache0 = cache]
       IN IF d.kind = "Descriptor"
          THEN /\ hist' = Latest(hist, Outcome("unpack", c, "Instance", GetMessageClass(d.desc)))
               /\ UNCHANGED <<pool, cache>>
          ELSE /\ hist' = Latest(hist, Outcome("unpack", c, "TypeNotFound", NoHandle))
               /\ pool' = pool \cup {FileY}
               /\ cache' = EmptyCache
    /\ UNCHANGED <<pc, call>>
    /\ UNCHANGED <<stdioVars, parseVars, fetchVars, listVars, pipeVars, grpcVars>>

\* registry.py:69-79  unpack(any_msg): the class of the message named after
\* the last "/" of type_url is looked up in the pool (KeyError: the call
\* ends), instantiated, and filled from any_msg.value (DecodeError: the call
\* ends)
unpack(w, any_msg) ==
    /\ pc[w] = "idle"
    /\ ncalls < MaxCalls
    /\ ncalls' = ncalls + 1
    /\ LET full_name == type_name_of(any_msg.type_url)
           d == FindMessageTypeByName(pool, full_name)
           v == DecodeValue(any_msg.value)
           c == [IdleCall EXCEPT !.text = any_msg.type_url, !.seq = ncalls + 1,
                                 !.pool0 = pool, !.cache0 = cache]
       IN IF d.kind # "Descriptor"
          THEN hist' = Latest(hist, Outcome("unpack", c, "TypeNotFound", NoHandle))
          ELSE IF ~v.ok
          THEN hist' = Latest(hist, Outcome("unpack", c, "DecodeError", NoHandle))
          ELSE hist' = Latest(hist, Outcome("unpack", [c EXCEPT !.instance = v.fields],
                                            "Instance", GetMessageClass(d.desc)))
    /\ UNCHANGED <<pool, cache, pc, call>>
    /\ UNCHANGED <<stdioVars, parseVars, fetchVars, listVars, pipeVars, grpcVars>>

\* one caller at a time: a call starts only when no call is in progress
NextReg ==
    \/ \E t \in RefTexts : AllIdle /\ resolve_begin(1, t)
    \/ \E a \in AnyMsgs : AllIdle /\ unpack(1, a)
    \/ resolve_check(1)
    \/ resolve_evict(1)
    \/ resolve_clear(1)
    \/ resolve_fetch(1)
    \/ resolve_store(1)
    \/ resolve_hit(1)
    \/ resolve_add(1)
    \/ resolve_find(1)
    \/ resolve_fallback(1)

\* the reference texts of the workers that run side by side
ConcTexts == {TextM, TextX, FillerText(MAX_REGISTRY_CACHE_SIZE + 1)}

\* the Any message of the workers that run side by side: "t/p.M", no field
ConcAnyMsgs == {a \in AnyMsgs : a.type_url = <<"t", "/", "p", ".", "M">> /\ a.value = <<>>}

\* several callers: every worker makes one call (worker k the k-th call to
\* begin) and takes the steps of its call in any order with the steps of the
\* others (the Registry holds no lock)
NextRegConc ==
    \E w \in Workers :
        \/ \E t \in ConcTexts : w = ncalls + 1 /\ resolve_begin(w, t)
        \/ \E a \in ConcAnyMsgs : w = ncalls + 1 /\ unpack(w, a)
        \/ resolve_check(w)
        \/ resolve_evict(w)
        \/ resolve_clear(w)
        \/ resolve_fetch(w)
        \/ resolve_store(w)
        \/ resolve_hit(w)
        \/ resolve_add(w)
        \/ resolve_find(w)
        \/ resolve_fallback(w)

\* the three workers of the runs in which one worker stores a set, another
\* finds it in the cache and a third clears the cache
EvictWorkers == {1, 2, 3}

\* the references of these workers: p.M, which its image defines, and q.X,
\* which its image does not define
EvictTexts == {TextM, TextX}

\* a Registry at capacity, with no call under way
RegistryAtCapacity ==
    /\ pool = {}
    /\ cache = Prefilled(MAX_REGISTRY_CACHE_SIZE)
    /\ pc = [w \in EvictWorkers |-> "idle"]
    /\ call = [w \in EvictWorkers |-> IdleCall]
    /\ hist = <<>>
    /\ ncalls = 0

\* every worker makes one resolve call (worker k the k-th to begin), the
\* steps interleave freely, and the remote registry always answers 200
NextRegEvict ==
    \E w \in EvictWorkers :
        \/ \E t \in EvictTexts : w = ncalls + 1 /\ resolve_begin(w, t)
        \/ resolve_check(w)
        \/ resolve_evict(w)
        \/ resolve_clear(w)
        \/ resolve_fetch(w) /\ pc'[w] = "store"
        \/ resolve_store(w)
        \/ resolve_hit(w)
        \/ resolve_add(w)
        \/ resolve_find(w)
        \/ resolve_fallback(w)

----------------------------------------------------------------------------
(* Reference parsing as a pure function of its input *)

\* the characters reference texts are made of after the scheme position
TailChars == {"a", "/", ":"}

RECURSIVE SeqsUpTo(_, _)
\* every sequence over S of length at most n
SeqsUpTo(S, n) ==
    IF n = 0 THEN {<<>>}
    ELSE LET shorter == SeqsUpTo(S, n - 1)
         IN shorter \cup {Append(t, c) : t \in {u \in shorter : Len(u) = n - 1}, c \in S}

\* what a text may start with: the scheme prefix, the prefix without its
\* slash, nothing, another host
Heads == {SchemePrefix, SubSeq(SchemePrefix, 1, 9), <<>>, <<"a", ".", "b", "/">>}

Texts == {h \o t : h \in Heads, t \in SeqsUpTo(TailChars, MaxTail)}

NoParse == [kind |-> "NoCall", ref |-> NoRef]

\* no reference has been handed to BSRRef.parse
ParseIdle ==
    /\ text = <<>>
    /\ parse_out = NoParse

\* ref = BSRRef.parse(text)
Parse ==
    /\ parse_out.kind = "NoCall"
    /\ parse_out' = BSRRef_parse(text)
    /\ UNCHANGED text
    /\ UNCHANGED <<stdioVars, regVars, fetchVars, listVars, pipeVars, grpcVars>>

----------------------------------------------------------------------------
(* fetch_descriptor_set as a pure function of the HTTP response *)

\* JSON of two files as the registry sends them, the second with its fields
\* under their proto names and without a package
JsonFileM == MessageToDict(FileM)
JsonFileY == [name |-> <<"y">>, message_type |-> <<[name |-> <<"Y">>, def |-> 1]>>,
              bufExtension |-> <<>>]

\* the JSON bodies: {}, a null image, an image without files, with a null
\* file list, with no, one and two files
JsonBodies ==
    {EmptyDict,
     [image |-> None],
     [image |-> JDict(EmptyDict)],
     [image |-> JDict([file |-> None])],
     [image |-> JDict([file |-> JList(<<>>)])],
     [image |-> JDict([file |-> JList(<<JsonFileM>>)])],
     [image |-> JDict([file |-> JList(<<JsonFileM, JsonFileY>>)])],
     [image |-> JDict([file |-> JList(<<JsonFileY, JsonFileM>>)])]}

\* the responses session.post may give
FetchResponses ==
    [status_code : {199, 200, 201, 204, 301, 404, 500},
     text : {<<>>, <<"n", "o">>, <<"(", "2", "0", "0", ")">>},
     json : JsonBodies]

NoFetch == [kind |-> "NoCall", message |-> <<>>, fds |-> <<>>]

FetchIdle ==
    /\ http_resp = [status_code |-> 200, text |-> <<>>, json |-> EmptyDict]
    /\ fetch_out = NoFetch

\* fds = client.fetch_descriptor_set(ref), session.post answering http_resp
Fetch ==
    /\ fetch_out.kind = "NoCall"
    /\ fetch_out' = fetch_descriptor_set(http_resp)
    /\ UNCHANGED http_resp
    /\ UNCHANGED <<stdioVars, parseVars, regVars, listVars, pipeVars, grpcVars>>

----------------------------------------------------------------------------
(* scripts/discovery_benchmark.py: build_proto_listing_payload *)

\* getattr(obj, attr, default)
getattr(obj, attr, default) == IF attr \in DOMAIN obj THEN obj[attr] ELSE default

\* every entry gets the key bsr_ref
ListingEntry_always_ref(tool) ==
    [name |-> tool.name, description |-> tool.description,
     bsr_ref |-> getattr(tool, "bsr_ref", <<>>)]

\* discovery_benchmark.py:63-68  the entry of one tool: bsr_ref only when
\* the tool has a non-empty one
ListingEntry(tool) ==
    IF getattr(tool, "bsr_ref", <<>>) # <<>>
    THEN [name |-> tool.name, description |-> tool.description, bsr_ref |-> tool.bsr_ref]
    ELSE [name |-> tool.name, description |-> tool.description]

\* the keys an entry may have, in the order sort_keys=True puts them, with
\* their characters
SortedKeys == <<"bsr_ref", "description", "name">>
KeyChars ==
    [bsr_ref |-> <<"b", "s", "r", "_", "r", "e", "f">>,
     description |-> <<"d", "e", "s", "c", "r", "i", "p", "t", "i", "o", "n">>,
     name |-> <<"n", "a", "m", "e">>]

\* a JSON string literal (for text without quotes, backslashes and control
\* characters, which json.dumps would escape)
Quoted(str) == <<"\"">> \o str \o <<"\"">>

\* json.dumps(entry, separators=(",", ":"), sort_keys=True)
DumpEntry(entry) ==
    LET keys == SelectSeq(SortedKeys, LAMBDA k : k \in DOMAIN entry)
        pairs == [i \in 1..Len(keys) |->
                     Quoted(KeyChars[keys[i]]) \o <<":">> \o Quoted(entry[keys[i]])]
    IN <<"{">> \o join(pairs, ",") \o <<"}">>

\* discovery_benchmark.py:52-74  build_proto_listing_payload(tools): the
\* text {"tools":[entry,...]}
build_proto_listing_payload(tls) ==
    LET entries == [i \in 1..Len(tls) |-> ListingEntry(tls[i])]
    IN <<"{">> \o Quoted(<<"t", "o", "o", "l", "s">>) \o <<":", "[">>
           \o join([i \in 1..Len(entries) |-> DumpEntry(entries[i])], ",")
           \o <<"]", "}">>

\* tool objects: name "a" or "b", description "" or "d", and bsr_ref "r",
\* "" or no such attribute
ToolObjects ==
    [name : {<<"a">>, <<"b">>}, description : {<<>>, <<"d">>}]
    \cup [name : {<<"a">>, <<"b">>}, description : {<<>>, <<"d">>},
          bsr_ref : {<<>>, <<"r">>}]

\* the lists of at most MaxTools tools
ToolLists == UNION {[1..n -> ToolObjects] : n \in 0..MaxTools}

NoListing == [kind |-> "NoCall", payload |-> <<>>]

ListIdle ==
    /\ tools = <<>>
    /\ listing = NoListing

\* payload = build_proto_listing_payload(tools)
BuildListing ==
    /\ listing.kind = "NoCall"
    /\ listing' = [kind |-> "str", payload |-> build_proto_listing_payload(tools)]
    /\ UNCHANGED tools
    /\ UNCHANGED <<stdioVars, parseVars, regVars, fetchVars, pipeVars, grpcVars>>

----------------------------------------------------------------------------
(* Specifications *)

vars == <<stdioVars, parseVars, regVars, fetchVars, listVars, pipeVars, grpcVars>>

\* the stream is an io.BytesIO or a pipe
InitStdio ==
    /\ \E s \in {"BytesIO", "pipe"} : StdioFresh(s)
    /\ ParseIdle /\ RegistryIdle /\ FetchIdle /\ ListIdle /\ PipeIdle /\ GrpcIdle

\* the stream is a pipe
InitPipe ==
    /\ StdioFresh("pipe")
    /\ ParseIdle /\ RegistryIdle /\ FetchIdle /\ ListIdle /\ PipeIdle /\ GrpcIdle

SpecStdio == InitStdio /\ [][NextStdio]_vars

SpecPrefix == InitStdio /\ [][NextPrefix]_vars

SpecReader == InitStdio /\ [][NextReader]_vars

SpecPipe == InitPipe /\ [][NextPipe]_vars

SpecWriter == InitPipe /\ [][NextWriter]_vars

SpecGrpc == InitPipe /\ [][NextGrpc]_vars

InitParse ==
    /\ StdioFresh("pipe")
    /\ RegistryIdle
    /\ FetchIdle
    /\ ListIdle
    /\ PipeIdle
    /\ GrpcIdle
    /\ text \in Texts
    /\ parse_out = NoParse

NextParse == Parse

SpecParse == InitParse /\ [][NextParse]_vars

InitReg == StdioFresh("pipe") /\ ParseIdle /\ RegistryFresh /\ FetchIdle /\ ListIdle /\ PipeIdle
                 /\ GrpcIdle

SpecReg == InitReg /\ [][NextReg]_vars

SpecRegConc == InitReg /\ [][NextRegConc]_vars

InitRegEvict == StdioFresh("pipe") /\ ParseIdle /\ RegistryAtCapacity /\ FetchIdle /\ ListIdle /\ PipeIdle
                 /\ GrpcIdle

SpecRegEvict == InitRegEvict /\ [][NextRegEvict]_vars

InitList ==
    /\ StdioFresh("pipe")
    /\ ParseIdle
    /\ RegistryIdle
    /\ FetchIdle
    /\ PipeIdle
    /\ GrpcIdle
    /\ tools \in ToolLists
    /\ listing = NoListing

NextList == BuildListing

SpecList == InitList /\ [][NextList]_vars

InitFetch ==
    /\ StdioFresh("pipe")
    /\ ParseIdle
    /\ RegistryIdle
    /\ ListIdle
    /\ PipeIdle
    /\ GrpcIdle
    /\ http_resp \in FetchResponses
    /\ fetch_out = NoFetch

NextFetch == Fetch

SpecFetch == InitFetch /\ [][NextFetch]_vars

----------------------------------------------------------------------------
(* Properties of the framed transport *)

\* the length declared by the 4-byte prefix p is above 0x02000000 (32 MiB),
\* compared byte by byte, most significant first
DeclaredOver(p) ==
    IF RByte(p, 0) > 2 THEN TRUE
    ELSE IF RByte(p, 0) < 2 THEN FALSE
    ELSE RByte(p, 1) + RByte(p, 2) + RByte(p, 3) > 0

\* the bytes the stream holds from the start of the latest read_message call
\* (each read of a call returns only once the stream has ended or holds every
\* byte the read asks for, and nothing is written after the end)
Pending == RLen(wire) - last.from
LastPrefix == io_read(wire, last.from, 4)

\* the i-th write_message call has returned
WriteReturned(i) == i < Len(sent) \/ (i = Len(sent) /\ wtodo = <<>>)

\* C1: an envelope whose serialized body is at most MAX_MESSAGE_SIZE, written
\* with write_message to an empty stream that no one else writes to, and
\* read from the start with read_message, comes back equal.
C1_RoundTrip ==
    (/\ last.kind # "NoCall"
     /\ last.from = 0
     /\ Len(sent) >= 1
     /\ sent[1].off = 0
     /\ WriteReturned(1)
     /\ nraw = 0
     /\ RLen(SerializeToString(sent[1].msg)) <= MAX_MESSAGE_SIZE)
    => (last.kind = "Message" /\ last.msg = sent[1].msg)

\* a body of exactly MAX_MESSAGE_SIZE bytes has made the round trip
C1_Witness ==
    /\ last.kind = "Message"
    /\ last.from = 0
    /\ Len(sent) >= 1
    /\ sent[1].off = 0
    /\ sent[1].msg.set
    /\ WriteReturned(1)
    /\ nraw = 0
    /\ last.msg = sent[1].msg
    /\ RLen(SerializeToString(sent[1].msg)) = MAX_MESSAGE_SIZE

\* C4: read_message fails with FrameTooLarge exactly when a complete prefix
\* declares more than MAX_MESSAGE_SIZE, and then the stream has advanced by
\* the 4 prefix bytes only.
C4_OversizeRejection ==
    last.kind # "NoCall" =>
        /\ (last.kind = "FrameTooLarge") <=> (Pending >= 4 /\ DeclaredOver(LastPrefix))
        /\ (last.kind = "FrameTooLarge") => (last.to = last.from + 4)

\* a prefix declaring MAX_MESSAGE_SIZE + 1 was rejected with body bytes pending
C4_Witness ==
    /\ last.kind = "FrameTooLarge"
    /\ Pending > 4
    /\ struct_unpack(LastPrefix) = MAX_MESSAGE_SIZE + 1
    /\ last.to = last.from + 4

\* C5: at the end of the stream with no byte pending, read_message returns
\* EndOfStream and consumes nothing.
C5_CleanShutdown ==
    (last.kind # "NoCall" /\ last.atEnd /\ Pending = 0)
    => (last.kind = "EndOfStream" /\ last.to = last.from)

\* the stream ended right after a frame that was read
C5_Witness ==
    /\ last.kind = "EndOfStream"
    /\ last.atEnd
    /\ Len(sent) >= 1
    /\ last.from = RLen(wire)
    /\ last.from > 0

\* C6: when the stream ends with 1, 2 or 3 bytes pending, read_message fails
\* with IncompleteLengthPrefix.
C6_TruncatedPrefix ==
    (last.kind # "NoCall" /\ last.atEnd /\ Pending \in 1..3)
    => last.kind = "IncompleteLengthPrefix"

\* the stream ended three bytes into a prefix
C6_Witness ==
    /\ last.kind = "IncompleteLengthPrefix"
    /\ last.atEnd
    /\ Pending = 3

\* C7: when a complete prefix declares 0 < L <= MAX_MESSAGE_SIZE and the
\* stream ends with fewer than L bytes after it, read_message fails with
\* IncompleteBody.
C7_TruncatedBody ==
    (/\ last.kind # "NoCall"
     /\ last.atEnd
     /\ Pending >= 4
     /\ ~DeclaredOver(LastPrefix)
     /\ struct_unpack(LastPrefix) > 0
     /\ Pending - 4 < struct_unpack(LastPrefix))
    => last.kind = "IncompleteBody"

\* the stream ended two bytes into a body declared as five
C7_Witness ==
    /\ last.kind = "IncompleteBody"
    /\ last.atEnd
    /\ struct_unpack(LastPrefix) = 5
    /\ Pending - 4 = 2

\* a read_message call ended with a framing error
FramingError(c) == c.kind \in {"IncompleteLengthPrefix", "IncompleteBody", "FrameTooLarge"}

\* C23 as claimed: once a read_message call on a reader has ended with a
\* framing error, no later call on that reader returns a message.
C23_FramingErrorsFatal ==
    \A i \in 1..Len(last.log) : \A j \in 1..Len(last.log) :
        (i < j /\ FramingError(last.log[i])) => last.log[j].kind # "Message"

\* C24 as claimed: the prefix of every frame write_message has put on the
\* stream declares at most MAX_MESSAGE_SIZE.
C24_WriterFrameSize ==
    \A i \in 1..Len(sent) : ~DeclaredOver(io_read(wire, sent[i].off, 4))

\* C25: when the stream carries only frames written by write_message, each
\* with a body of at most MAX_MESSAGE_SIZE and none cut short by the close
\* of the stream, the j-th read_message call returns
\* the j-th message written and moves the stream from the start of its frame
\* by 4 + the length of its body; a call beyond the last frame returns
\* EndOfStream.
C25_Fifo ==
    (/\ nraw = 0
     /\ closed => wtodo = <<>>
     /\ \A i \in 1..Len(sent) :
            RLen(SerializeToString(sent[i].msg)) <= MAX_MESSAGE_SIZE) =>
        \A j \in 1..Len(last.log) : LET c == last.log[j] IN
            IF j <= Len(sent)
            THEN /\ c.kind = "Message"
                 /\ c.msg = sent[j].msg
                 /\ c.from = sent[j].off
                 /\ c.to = c.from + 4 + RLen(SerializeToString(sent[j].msg))
            ELSE /\ c.kind = "EndOfStream"
                 /\ c.to = c.from
                 /\ closed

\* two different messages were written, the stream was closed, and three
\* calls returned the first, the second and EndOfStream
C25_Witness ==
    /\ nraw = 0
    /\ closed
    /\ wtodo = <<>>
    /\ Len(sent) = 2
    /\ sent[1].msg # sent[2].msg
    /\ sent[2].msg.id # 0
    /\ Len(last.log) = 3
    /\ last.log[1].kind = "Message" /\ last.log[1].msg = sent[1].msg
    /\ last.log[2].kind = "Message" /\ last.log[2].msg = sent[2].msg
    /\ last.log[3].kind = "EndOfStream"
    /\ last.atEnd

----------------------------------------------------------------------------
(* Properties of reference parsing *)

\* the text after the scheme prefix
TextTail == SubSeq(text, Len(SchemePrefix) + 1, Len(text))

\* text starts with the ten characters of the scheme prefix
HasScheme == Len(text) >= 10 /\ \A i \in 1..10 : text[i] = SchemePrefix[i]

\* positions of the character c in the sequence s
Positions(s, c) == {i \in 1..Len(s) : s[i] = c}

\* smallest element of a non-empty set of numbers
Least(S) == CHOOSE i \in S : \A j \in S : i <= j

\* the reference the claim C8 expects for a text with the scheme prefix and
\* at least two '/' after it
ExpectedRef ==
    LET t == TextTail
        s1 == Least(Positions(t, "/"))
        s2 == Least(Positions(t, "/") \ {s1})
        rem == SubSeq(t, s2 + 1, Len(t))
        colons == Positions(rem, ":")
    IN [owner |-> SubSeq(t, 1, s1 - 1),
        repository |-> SubSeq(t, s1 + 1, s2 - 1),
        message |-> IF colons = {} THEN rem ELSE SubSeq(rem, 1, Least(colons) - 1),
        version |-> IF colons = {} THEN DefaultVersion
                    ELSE SubSeq(rem, Least(colons) + 1, Len(rem))]

\* C8: for a text with the scheme prefix and at least three segments after
\* it, parse returns owner = first segment, repository = second segment,
\* message = the rest up to the ':' and version = the text after the ':',
\* "main" when there is no ':'.
C8_ReferenceParsing ==
    (/\ parse_out.kind # "NoCall"
     /\ HasScheme
     /\ Cardinality(Positions(TextTail, "/")) >= 2)
    => (parse_out.kind = "BSRRef" /\ parse_out.ref = ExpectedRef)

\* C9: parse fails with ValueError when the text lacks the scheme prefix or
\* has fewer than three segments after it (and only then), and a parse
\* changes nothing but its own result.
C9_MalformedReference ==
    /\ [](parse_out.kind # "NoCall" =>
            ((parse_out.kind = "ValueError")
             <=> (~HasScheme \/ Cardinality(Positions(TextTail, "/")) < 2)))
    /\ [][parse_out' # parse_out => UNCHANGED <<text, stdioVars, regVars>>]_vars

\* a text with the scheme prefix and two segments was rejected
C9_Witness ==
    /\ parse_out.kind = "ValueError"
    /\ HasScheme
    /\ Cardinality(Positions(TextTail, "/")) = 1
    /\ Len(TextTail) >= 3

\* C10: every reference parse returns has a non-empty owner, repository and
\* message.
C10_PartsPresent ==
    parse_out.kind = "BSRRef" =>
        /\ parse_out.ref.owner # <<>>
        /\ parse_out.ref.repository # <<>>
        /\ parse_out.ref.message # <<>>

----------------------------------------------------------------------------
(* Properties of the Registry, one caller at a time *)

\* number of times a completed call invoked fetch_descriptor_set
FetchCount(c) == IF c.fetch = "none" THEN 0 ELSE 1

\* the two latest calls were for the same reference text
SameRefTwice == Len(hist) = 2 /\ hist[1].text = hist[2].text

\* C2: the cache never holds more than MAX_REGISTRY_CACHE_SIZE entries, in
\* any state of any resolve call, and no call ends with an error raised by
\* the cache.
C2_CacheBounded ==
    /\ Cardinality(DOMAIN cache) <= MAX_REGISTRY_CACHE_SIZE
    /\ \A i \in 1..Len(hist) : hist[i].kind # "CacheKeyError"

\* a call found the cache full, cleared it and stored its own set
C2_Witness ==
    /\ Len(hist) >= 1
    /\ hist[Len(hist)].evicted
    /\ hist[Len(hist)].fetch = "ok"
    /\ Cardinality(DOMAIN cache) = 1

\* C3 as claimed: two resolve calls in a row for the same reference fetch at
\* most once in total, and a handle returned by the first is returned again
\* by the second.
C3_IdempotentResolve ==
    SameRefTwice =>
        /\ FetchCount(hist[1]) + FetchCount(hist[2]) <= 1
        /\ hist[1].kind = "Handle" =>
               (hist[2].kind = "Handle" /\ hist[2].handle = hist[1].handle)

\* C3 as amended: the second of two resolve calls in a row for the same
\* reference fetches only if the fetch of the first failed, and a handle
\* returned by the first is returned again by the second.
C3_IdempotentResolveAmended ==
    SameRefTwice =>
        /\ hist[2].fetch # "none" => hist[1].fetch = "failed"
        /\ hist[1].kind = "Handle" =>
               (hist[2].kind = "Handle" /\ hist[2].handle = hist[1].handle)

\* the first call fetched and returned a handle, the second returned the same
\* handle without a fetch
C3_Witness ==
    /\ SameRefTwice
    /\ hist[1].fetch = "ok"
    /\ hist[1].kind = "Handle"
    /\ hist[2].fetch = "none"
    /\ hist[2].kind = "Handle"
    /\ hist[2].handle = hist[1].handle

----------------------------------------------------------------------------
(* Properties of the catalog (the pool) and of the steps of resolve *)

\* the finished resolve calls hist remembers
Resolves == {i \in 1..Len(hist) : hist[i].op = "resolve"}

\* the call got as far as adding a fetched or cached set to the pool
Inserted(h) == h.op = "resolve" /\ (h.fetch = "ok" \/ h.hit)

\* the definitions the files give the name n: file and definition
Definition(files, n) ==
    UNION {{[file |-> fd.name, def |-> fd.message_type[i].def] :
                i \in {j \in 1..Len(fd.message_type) :
                          full_name_of(fd, fd.message_type[j]) = n}} : fd \in files}

\* the names the set fds defines
SetSymbols(fds) == UNION {FileSymbols(fds[i]) : i \in 1..Len(fds)}

\* C11: in every step, every name the pool knows stays in the pool with the
\* definition it had.
C11_CatalogAppendOnly ==
    [][\A n \in PoolSymbols(pool) :
          /\ n \in PoolSymbols(pool')
          /\ Definition(pool', n) = Definition(pool, n)]_vars

\* a call added a set that defines, differently, a name the pool already
\* had, and the pool still holds the old definition only
C11_Witness ==
    \E i \in Resolves : LET h == hist[i] IN
        /\ Inserted(h)
        /\ \E n \in SetSymbols(h.fds) \cap PoolSymbols(h.pool0) :
              /\ Definition({h.fds[j] : j \in 1..Len(h.fds)}, n) # Definition(h.pool0, n)
              /\ Definition(pool, n) = Definition(h.pool0, n)

\* C12: a resolve whose message name is in the pool at the start returns the
\* class of the pool's definition, calls no fetch, and leaves the pool and
\* the cache as they were.
C12_CatalogHit ==
    \A i \in Resolves : LET h == hist[i] IN
        h.ref.message \in PoolSymbols(h.pool0) =>
            /\ h.kind = "Handle"
            /\ h.handle.full_name = h.ref.message
            /\ [file |-> h.handle.file, def |-> h.handle.def]
                   \in Definition(h.pool0, h.ref.message)
            /\ h.nfetch = 0
            /\ h.pool1 = h.pool0
            /\ h.cache1 = h.cache0

\* such a call, made while the cache was at capacity
C12_Witness ==
    \E i \in Resolves : LET h == hist[i] IN
        /\ h.ref.message \in PoolSymbols(h.pool0)
        /\ Cardinality(DOMAIN h.cache0) >= MAX_REGISTRY_CACHE_SIZE
        /\ h.kind = "Handle"
        /\ h.cache1 = h.cache0

\* C13: a resolve call fetches at most once, only when the message name was
\* not in the pool and the key was not in the cache; a call that found its
\* key in the cache used the cached set and did not fetch.
C13_FetchOnlyOnMiss ==
    /\ \A w \in Workers : call[w].nfetch <= 1
    /\ \A i \in Resolves : LET h == hist[i] IN
        /\ h.nfetch <= 1
        /\ h.nfetch > 0 =>
              /\ h.ref.message \notin PoolSymbols(h.pool0)
              /\ repo_id_of(h.ref) \notin DOMAIN h.cache0
        /\ (h.kind # "MalformedReference"
              /\ h.ref.message \notin PoolSymbols(h.pool0)
              /\ repo_id_of(h.ref) \in DOMAIN h.cache0) =>
              /\ h.nfetch = 0
              /\ h.hit
              /\ h.fds = h.cache0[repo_id_of(h.ref)]

\* a call took a non-empty set from the cache without a fetch
C13_Witness ==
    \E i \in Resolves : LET h == hist[i] IN
        /\ h.hit
        /\ h.nfetch = 0
        /\ h.fds # <<>>
        /\ h.fds = h.cache0[repo_id_of(h.ref)]

\* C14: a resolve that stored a fetched set leaves exactly that one entry in
\* the cache when the cache held MAX_REGISTRY_CACHE_SIZE entries or more at
\* the start, and otherwise leaves every earlier entry in place next to the
\* new one.
C14_ClearAllEviction ==
    \A i \in Resolves : LET h == hist[i]
                            k == repo_id_of(h.ref) IN
        h.fetch = "ok" =>
            IF Cardinality(DOMAIN h.cache0) >= MAX_REGISTRY_CACHE_SIZE
            THEN /\ DOMAIN h.cache1 = {k}
                 /\ h.cache1[k] = h.fds
            ELSE /\ DOMAIN h.cache1 = DOMAIN h.cache0 \cup {k}
                 /\ h.cache1[k] = h.fds
                 /\ \A x \in DOMAIN h.cache0 : h.cache1[x] = h.cache0[x]

\* one call stored its set next to the entries of a cache below capacity,
\* and the next call found the cache full and left its own entry only
C14_Witness ==
    /\ Len(hist) = 2
    /\ Resolves = {1, 2}
    /\ hist[1].fetch = "ok"
    /\ hist[1].cache0 # EmptyCache
    /\ DOMAIN hist[1].cache0 \subseteq DOMAIN hist[1].cache1
    /\ hist[2].fetch = "ok"
    /\ Cardinality(DOMAIN hist[2].cache0) >= MAX_REGISTRY_CACHE_SIZE
    /\ DOMAIN cache = {repo_id_of(hist[2].ref)}

\* C15 as claimed: a resolve whose fetch failed leaves the cache as it was at
\* the start of the call.
C15_FailedFetchKeepsCache ==
    \A i \in Resolves : LET h == hist[i] IN
        h.fetch = "failed" => h.cache1 = h.cache0

\* the text is one BSRRef.parse rejects: no "buf.build/" at its start, or
\* fewer than two "/" after it
Malformed(t) ==
    IF Len(t) >= Len(SchemePrefix) /\ SubSeq(t, 1, Len(SchemePrefix)) = SchemePrefix
    THEN Cardinality({j \in (Len(SchemePrefix) + 1)..Len(t) : t[j] = "/"}) < 2
    ELSE TRUE

\* C16: a resolve whose fetch got a status other than 200 ends with
\* SchemaFetchFailed and no handle, leaves the pool as it was and no cache
\* entry under its key; the same reference resolved next fetches again.
C16_FetchFailure ==
    /\ \A i \in Resolves : LET h == hist[i] IN
        h.status \notin {0, 200} =>
            /\ h.kind = "SchemaFetchFailed"
            /\ h.handle = NoHandle
            /\ h.pool1 = h.pool0
            /\ repo_id_of(h.ref) \notin DOMAIN h.cache1
    /\ (Len(hist) = 2 /\ Resolves = {1, 2} /\ hist[1].text = hist[2].text
          /\ hist[1].status \notin {0, 200}) => hist[2].nfetch = 1

\* a fetch failed, and the same reference resolved next fetched again and
\* returned a handle
C16_Witness ==
    /\ Len(hist) = 2
    /\ Resolves = {1, 2}
    /\ hist[1].text = hist[2].text
    /\ hist[1].status = 404
    /\ hist[1].kind = "SchemaFetchFailed"
    /\ hist[2].nfetch = 1
    /\ hist[2].kind = "Handle"

\* C17: a resolve of a text BSRRef.parse rejects ends with
\* MalformedReference and no handle, without a fetch, and leaves the pool and
\* the cache as they were.
C17_MalformedResolve ==
    \A i \in Resolves : LET h == hist[i] IN
        Malformed(h.text) =>
            /\ h.kind = "MalformedReference"
            /\ h.handle = NoHandle
            /\ h.nfetch = 0
            /\ ~h.hit
            /\ h.pool1 = h.pool0
            /\ h.cache1 = h.cache0

\* a malformed text was resolved on a Registry whose pool and cache were not
\* empty
C17_Witness ==
    \E i \in Resolves : LET h == hist[i] IN
        /\ Malformed(h.text)
        /\ h.kind = "MalformedReference"
        /\ h.pool0 # {}
        /\ h.cache0 # EmptyCache
        /\ pool = h.pool0
        /\ cache = h.cache0

\* C18 as claimed: a resolve that added a set in which some file's package
\* and message name make up the reference's message name returns a handle
\* for that name.
C18_FallbackResolution ==
    \A i \in Resolves : LET h == hist[i] IN
        (Inserted(h) /\ h.ref.message \in SetSymbols(h.fds)) =>
            /\ h.kind = "Handle"
            /\ h.handle.full_name = h.ref.message

\* C19: a resolve that added its set and then found the message name neither
\* in the pool nor through a candidate name of the set ends with TypeNotFound
\* and no handle.
C19_TypeNotFound ==
    \A i \in Resolves : LET h == hist[i] IN
        (/\ Inserted(h)
         /\ h.ref.message \notin PoolSymbols(h.pool1)
         /\ ~\E n \in SetSymbols(h.fds) : n = h.ref.message /\ n \in PoolSymbols(h.pool1)) =>
            /\ h.kind = "TypeNotFound"
            /\ h.handle = NoHandle

\* a call fetched a non-empty set that does not define the message and ended
\* with TypeNotFound
C19_Witness ==
    \E i \in Resolves : LET h == hist[i] IN
        /\ h.fetch = "ok"
        /\ h.fds # <<>>
        /\ h.ref.message \notin PoolSymbols(pool)
        /\ h.kind = "TypeNotFound"

\* C20 as claimed: once a resolve has added its set, every name the set
\* defines is in the pool.
C20_InsertCompleteness ==
    \A i \in Resolves : LET h == hist[i] IN
        Inserted(h) => SetSymbols(h.fds) \subseteq PoolSymbols(h.pool1)

----------------------------------------------------------------------------
(* Properties of unpack *)

\* the finished unpack calls hist remembers
Unpacks == {i \in 1..Len(hist) : hist[i].op = "unpack"}

\* the part of url after its last "/" (all of it when it has none)
LastSegment(url) ==
    LET slashes == {i \in 1..Len(url) : url[i] = "/"}
        from == IF slashes = {} THEN 1
                ELSE (CHOOSE i \in slashes : \A j \in slashes : j <= i) + 1
    IN SubSeq(url, from, Len(url))

\* C21: the step of an unpack call leaves the pool and the cache as they
\* are and starts no fetch (no call in progress changes), whether the call
\* returns an instance or raises.
C21_UnpackReadOnly ==
    [][(hist' # hist /\ hist'[Len(hist')].op = "unpack") =>
          /\ pool' = pool
          /\ cache' = cache
          /\ call' = call
          /\ hist'[Len(hist')].nfetch = 0]_vars

\* one unpack returned an instance and another raised, on a Registry whose
\* pool and cache are not empty
C21_Witness ==
    /\ Len(hist) = 2
    /\ Unpacks = {1, 2}
    /\ \E i \in Unpacks : hist[i].kind = "Instance"
    /\ \E i \in Unpacks : hist[i].kind = "TypeNotFound"
    /\ pool # {}
    /\ cache # EmptyCache
    /\ hist[1].pool0 = pool
    /\ hist[1].cache0 = cache

\* C22 as claimed: an unpack returns an instance only for a name for which
\* an earlier resolve call returned a class.
C22_UnpackOnlyResolved ==
    \A i \in Unpacks : LET h == hist[i] IN
        h.kind = "Instance" => LastSegment(h.text) \in h.resolved

\* C22 as amended: an unpack looks up the part of type_url after its last
\* "/"; it raises TypeNotFound when the pool does not know that name, and
\* otherwise goes on to decode and returns an instance of the class of
\* that name, whether or not a resolve call returned that class before.
C22_UnpackLooksUpPool ==
    \A i \in Unpacks : LET h == hist[i]
                           n == LastSegment(h.text) IN
        /\ n \notin PoolSymbols(h.pool0) => (h.kind = "TypeNotFound" /\ h.handle = NoHandle)
        /\ n \in PoolSymbols(h.pool0) => h.kind \in {"Instance", "DecodeError"}
        /\ h.kind = "Instance" =>
              /\ h.handle.full_name = n
              /\ [file |-> h.handle.file, def |-> h.handle.def] \in Definition(h.pool0, n)

\* an unpack returned an instance of a class that came into the pool with
\* the file of another message and that no resolve call had returned
C22_Witness ==
    \E i \in Unpacks : LET h == hist[i] IN
        /\ h.kind = "Instance"
        /\ LastSegment(h.text) \notin h.resolved
        /\ h.resolved # {}
        /\ \E j \in 1..Len(h.text) : j > 2 /\ h.text[j] = "/"

----------------------------------------------------------------------------
(* Properties of the Registry with several workers *)

\* worker w has begun to add its set to the pool and has files left to add
\* (registry.py:43-49)
InsideCatalogInsert(w) ==
    pc[w] = "add" /\ call[w].idx > 1 /\ call[w].idx <= Len(call[w].fds)

\* worker w has tested the size of the cache for its insert and has not yet
\* stored its entry (registry.py:31-36)
InsideCachePut(w) == pc[w] \in {"clear", "fetch", "store"}

\* C26 as claimed: no two workers are at the same time inside an insert into
\* the pool, nor at the same time inside a put into the cache.
C26_MutualExclusion ==
    \A v \in Workers : \A w \in Workers :
        v # w => /\ ~(InsideCatalogInsert(v) /\ InsideCatalogInsert(w))
                 /\ ~(InsideCachePut(v) /\ InsideCachePut(w))

\* the pool after the files of fds, from the i-th on, were added one by one
RECURSIVE PoolAfter(_, _, _)
PoolAfter(files, fds, i) ==
    IF i > Len(fds) THEN files
    ELSE PoolAfter(IF AddAccepted(files, fds[i]) THEN files \cup {fds[i]} ELSE files,
                   fds, i + 1)

\* the cache after one resolve call that starts with cache c0, misses, and
\* stores fds under owner/repository@version
CacheAfter(c0, ref, fds) ==
    LET key == ref.owner \o <<"/">> \o ref.repository \o <<"@">> \o ref.version
        kept == IF Cardinality(DOMAIN c0) >= MAX_REGISTRY_CACHE_SIZE THEN {} ELSE DOMAIN c0
    IN [x \in kept \cup {key} |-> IF x = key THEN fds ELSE c0[x]]

\* the call of hist that began first
FirstBegun == CHOOSE h \in {hist[1], hist[2]} : h.seq = 1

\* two resolve calls for one reference were the only calls and are over; when
\* the first began the pool did not know the message and the cache did not
\* hold the repository; every fetch was answered with status 200 and the
\* image defines the message
SameRefPair ==
    /\ AllIdle
    /\ ncalls = 2
    /\ Len(hist) = 2
    /\ \A i \in 1..2 : hist[i].op = "resolve" /\ hist[i].status \in {0, 200}
    /\ hist[1].text = hist[2].text
    /\ {hist[1].seq, hist[2].seq} = {1, 2}
    /\ LET f == FirstBegun IN
        /\ f.ref # NoRef
        /\ f.ref.message \notin UNION {FileSymbols(fd) : fd \in f.pool0}
        /\ f.ref.message \in SetSymbols(RemoteFiles(f.ref))
        /\ \A k \in DOMAIN f.cache0 :
              k # f.ref.owner \o <<"/">> \o f.ref.repository \o <<"@">> \o f.ref.version

\* C27 as claimed: two resolve calls for the same never-seen reference whose
\* steps interleave in any way, every fetch succeeding, both return a handle
\* for the same definition, and they leave the pool and the cache that a
\* single resolve call for that reference leaves.
C27_ConcurrentAsSingle ==
    SameRefPair =>
        LET f == FirstBegun
            files == RemoteFiles(f.ref)
        IN /\ hist[1].kind = "Handle"
           /\ hist[2].kind = "Handle"
           /\ hist[1].handle = hist[2].handle
           /\ hist[1].handle.full_name = f.ref.message
           /\ pool = PoolAfter(f.pool0, files, 1)
           /\ cache = CacheAfter(f.cache0, f.ref, files)

----------------------------------------------------------------------------
(* Properties of BSRClient.fetch_descriptor_set *)

\* part occurs in msg
Carries(msg, part) ==
    \E i \in 0..(Len(msg) - Len(part)) : SubSeq(msg, i + 1, i + Len(part)) = part

\* C28: whenever the status of the registry's HTTP response is not 200,
\* fetch_descriptor_set fails with an error whose message carries the status
\* code and ends with the response text, and it returns no definition set.
C28_NonSuccessFails ==
    (fetch_out.kind # "NoCall" /\ http_resp.status_code # 200) =>
        /\ fetch_out.kind = "Exception"
        /\ fetch_out.fds = <<>>
        /\ Carries(fetch_out.message, Digits(http_resp.status_code))
        /\ Len(fetch_out.message) >= Len(http_resp.text)
        /\ SubSeq(fetch_out.message,
                  Len(fetch_out.message) - Len(http_resp.text) + 1,
                  Len(fetch_out.message)) = http_resp.text

\* a 404 with the text "no" and a body that holds an image was answered by
\* the error
C28_Witness ==
    /\ fetch_out.kind = "Exception"
    /\ http_resp.status_code = 404
    /\ http_resp.text = <<"n", "o">>
    /\ "image" \in DOMAIN http_resp.json

\* the body has no image, or an image that is an object whose file list is
\* missing or is a list
ImageAbsentOrListed(data) ==
    IF "image" \notin DOMAIN data THEN TRUE
    ELSE IF data.image.t # "dict" THEN FALSE
    ELSE IF "file" \notin DOMAIN data.image.v THEN TRUE
    ELSE data.image.v.file.t = "list"

\* the entries of the body's image.file list, none when the image or the
\* list is missing
FileEntries(data) ==
    IF "image" \notin DOMAIN data THEN <<>>
    ELSE IF "file" \notin DOMAIN data.image.v THEN <<>>
    ELSE data.image.v.file.v

\* the value an entry has for a field under one of its two names, empty when
\* it has neither
EntryField(entry, jsonName, protoName) ==
    IF jsonName \in DOMAIN entry THEN entry[jsonName]
    ELSE IF protoName \in DOMAIN entry THEN entry[protoName]
    ELSE <<>>

\* C29: on a 200 response whose image and file list are missing or well
\* formed, fetch_descriptor_set returns a set with exactly one file
\* definition per entry of image.file, in the order of the list, each with
\* the name, package, messages and dependencies of its entry; a missing image
\* or list gives the empty set and no error.
C29_OneFilePerEntry ==
    (/\ fetch_out.kind # "NoCall"
     /\ http_resp.status_code = 200
     /\ ImageAbsentOrListed(http_resp.json)) =>
        LET entries == FileEntries(http_resp.json) IN
        /\ fetch_out.kind = "FileDescriptorSet"
        /\ Len(fetch_out.fds) = Len(entries)
        /\ \A i \in 1..Len(entries) :
              /\ fetch_out.fds[i].name = EntryField(entries[i], "name", "name")
              /\ fetch_out.fds[i].package = EntryField(entries[i], "package", "package")
              /\ fetch_out.fds[i].message_type =
                     EntryField(entries[i], "messageType", "message_type")
              /\ fetch_out.fds[i].dependency =
                     EntryField(entries[i], "dependency", "dependency")
              /\ DOMAIN fetch_out.fds[i] = {"name", "package", "message_type", "dependency"}

\* a 200 response with two different entries gave a set of two files in the
\* order of the entries
C29_Witness ==
    /\ http_resp.status_code = 200
    /\ fetch_out.kind = "FileDescriptorSet"
    /\ Len(fetch_out.fds) = 2
    /\ fetch_out.fds[1].name = <<"y">>
    /\ fetch_out.fds[2].name = <<"m">>
    /\ FileEntries(http_resp.json)[1] # FileEntries(http_resp.json)[2]

----------------------------------------------------------------------------
(* Properties of build_proto_listing_payload *)

\* the text between the first and the last character of str
Inner(str) == SubSeq(str, 2, Len(str) - 1)

\* the texts of the objects of the payload's "tools" array: what stands
\* between each "{" after the first and the "}" that follows it
EntryTexts(payload) ==
    LET pieces == split(Inner(payload), "{")
    IN [i \in 1..(Len(pieces) - 1) |-> split(pieces[i + 1], "}")[1]]

\* the key/value pairs of the text of an object whose strings hold no comma,
\* colon or quote
PairsOf(entryText) ==
    LET items == split(entryText, ",")
    IN [i \in 1..Len(items) |->
           LET kv == split(items[i], ":")
           IN [key |-> Inner(kv[1]), value |-> Inner(kv[2])]]

\* the pairs have the key, with the value
HasPair(pairs, key, value) ==
    \E i \in 1..Len(pairs) : pairs[i].key = key /\ pairs[i].value = value

\* the pairs have the key
HasKey(pairs, key) == \E i \in 1..Len(pairs) : pairs[i].key = key

NameKey == <<"n", "a", "m", "e">>
DescriptionKey == <<"d", "e", "s", "c", "r", "i", "p", "t", "i", "o", "n">>
BsrRefKey == <<"b", "s", "r", "_", "r", "e", "f">>
InputSchemaKey == <<"i", "n", "p", "u", "t", "S", "c", "h", "e", "m", "a">>

\* the tool's bsr_ref, empty when it has none
ToolRef(tool) == IF "bsr_ref" \in DOMAIN tool THEN tool.bsr_ref ELSE <<>>

\* C30: the payload of build_proto_listing_payload is the object with the one
\* key "tools", whose array has exactly one entry per input tool, in input
\* order; each entry has the tool's name and description, has bsr_ref (with
\* the tool's value) if and only if the tool's bsr_ref is not empty, and has
\* no other key, so no inputSchema.
C30_ProtoListing ==
    listing.kind # "NoCall" =>
        LET texts == EntryTexts(listing.payload) IN
        /\ startswith(listing.payload, <<"{", "\"", "t", "o", "o", "l", "s", "\"", ":", "[">>)
        /\ Len(texts) = Len(tools)
        /\ \A i \in 1..Len(texts) :
              LET pairs == PairsOf(texts[i]) IN
              /\ HasPair(pairs, NameKey, tools[i].name)
              /\ HasPair(pairs, DescriptionKey, tools[i].description)
              /\ HasKey(pairs, BsrRefKey) <=> ToolRef(tools[i]) # <<>>
              /\ HasKey(pairs, BsrRefKey) => HasPair(pairs, BsrRefKey, ToolRef(tools[i]))
              /\ ~HasKey(pairs, InputSchemaKey)
              /\ \A j \in 1..Len(pairs) :
                    pairs[j].key \in {NameKey, DescriptionKey, BsrRefKey}

\* a listing was built for two tools with different names, the first with a
\* bsr_ref and the second with an empty one
C30_Witness ==
    /\ listing.kind = "str"
    /\ Len(tools) = 2
    /\ tools[1].name # tools[2].name
    /\ ToolRef(tools[1]) # <<>>
    /\ "bsr_ref" \in DOMAIN tools[2]
    /\ tools[2].bsr_ref = <<>>
    /\ Len(EntryTexts(listing.payload)) = 2

----------------------------------------------------------------------------
(* Properties of the Registry with several workers, continued *)

\* the reference texts of the calls that are under way or in hist
TextsUnderWay == {call[w].text : w \in {v \in Workers : pc[v] # "idle"}}
TextsDone == {hist[i].text : i \in 1..Len(hist)}

\* every call made so far is a resolve call, no two calls name the same
\* reference, no call has dropped out of hist, and none of the references
\* was in the cache or the pool when the first call began
DistinctNeverSeen ==
    /\ \A i \in 1..Len(hist) : hist[i].op = "resolve"
    /\ Cardinality(TextsUnderWay \cup TextsDone) = ncalls
    /\ \A w \in Workers : pc[w] # "idle" =>
          /\ (call[w].ref.owner \o <<"/">> \o call[w].ref.repository \o <<"@">>
                 \o call[w].ref.version) \notin DOMAIN call[w].cache0
          /\ call[w].ref.message \notin UNION {FileSymbols(fd) : fd \in call[w].pool0}

\* C31 as claimed: while workers resolve distinct never-seen references side
\* by side, the cache never holds more than MAX_REGISTRY_CACHE_SIZE entries.
C31_CacheBoundedConcurrent ==
    DistinctNeverSeen => Cardinality(DOMAIN cache) <= MAX_REGISTRY_CACHE_SIZE

\* C32 as claimed: with workers that resolve side by side, a remote registry
\* that always answers 200 and images that define the requested type, every
\* resolve call returns a class; no call fails because the cache was cleared
\* after the call found its key in the cache.
C32_AtomicBulkClear ==
    \A i \in 1..Len(hist) :
        (/\ hist[i].op = "resolve"
         /\ hist[i].status \in {0, 200}
         /\ hist[i].ref.message \in SetSymbols(RemoteFiles(hist[i].ref)))
        => hist[i].kind = "Handle"

----------------------------------------------------------------------------
(* Properties of the frame prefix *)

\* C35: the first byte of the frame write_message writes for an envelope is
\* 0 when the serialized body is shorter than 2^24 bytes, and is not 0 when
\* the body has from 2^24 up to MAX_MESSAGE_SIZE bytes.
C35_LeadingByte ==
    \A i \in 1..Len(sent) :
        LET size == RLen(SerializeToString(sent[i].msg))
            first == RByte(wire, sent[i].off)
        IN RLen(wire) > sent[i].off =>
              /\ size < 16777216 => first = 0
              /\ (size >= 16777216 /\ size <= MAX_MESSAGE_SIZE) => first # 0

\* frames were written for a body of 2^24 - 1 bytes and for a body of 2^24
\* bytes, the first beginning with 0 and the second with 1
C35_Witness ==
    /\ Len(sent) = 2
    /\ RLen(SerializeToString(sent[1].msg)) = 16777216 - 1
    /\ RLen(SerializeToString(sent[2].msg)) = 16777216
    /\ RByte(wire, sent[1].off) = 0
    /\ RByte(wire, sent[2].off) = 1

\* C36: when the four bytes at the start of a read_message call are
\* 00 00 00 00 the call returns the empty envelope and consumes these four
\* bytes, also when the stream ends right after them; the call returns
\* EndOfStream only when the stream had no byte left for it.
C36_EmptyFrameIsMessage ==
    last.kind # "NoCall" =>
        /\ (Pending >= 4 /\ LastPrefix = struct_pack(0)) =>
              /\ last.kind = "Message"
              /\ last.msg = NoMessage
              /\ last.to = last.from + 4
        /\ last.kind = "EndOfStream" => (Pending = 0 /\ last.atEnd)

\* the stream ended right after a frame of declared length 0, and the call
\* returned the empty envelope
C36_Witness ==
    /\ last.kind = "Message"
    /\ last.msg = NoMessage
    /\ last.atEnd
    /\ Pending = 4
    /\ RByte(wire, last.from) + RByte(wire, last.from + 1)
           + RByte(wire, last.from + 2) + RByte(wire, last.from + 3) = 0

----------------------------------------------------------------------------
(* Properties of resolve with one caller, continued *)

\* C37: once a resolve call has returned a class for a message name, every
\* later resolve call whose reference has that message name, under whatever
\* owner, repository and version, returns the class of the same definition,
\* calls no fetch and leaves the cache (and the pool) as they are, whether or
\* not the cache still holds the repository of the earlier call.
C37_KeyedByTypeName ==
    (Len(hist) = 2 /\ hist[2].op = "resolve"
        /\ hist[2].kind # "MalformedReference"
        /\ hist[2].ref.message \in hist[1].resolved) =>
        LET h == hist[2] IN
        /\ h.kind = "Handle"
        /\ h.handle.full_name = h.ref.message
        /\ Definition(h.pool0, h.ref.message) = {[file |-> h.handle.file, def |-> h.handle.def]}
        /\ (hist[1].kind = "Handle" /\ hist[1].handle.full_name = h.ref.message)
              => h.handle = hist[1].handle
        /\ h.nfetch = 0
        /\ ~h.hit
        /\ h.cache1 = h.cache0
        /\ h.pool1 = h.pool0

\* p.M was resolved, a later call cleared the cache, and a third call for p.M
\* under another version returned the class without a fetch, the cache
\* holding neither repository
C37_Witness ==
    /\ Len(hist) = 2
    /\ hist[1].op = "resolve"
    /\ hist[1].evicted
    /\ hist[1].ref.message # hist[2].ref.message
    /\ hist[2].op = "resolve"
    /\ hist[2].kind = "Handle"
    /\ hist[2].ref.message \in hist[1].resolved
    /\ hist[2].ref.version # DefaultVersion
    /\ hist[2].nfetch = 0
    /\ DOMAIN hist[2].cache1 \cap {repo_id_of(hist[2].ref), repo_id_of(BSRRef_parse(TextM).ref)} = {}

\* the resolve call ended with TypeNotFound
NotFound(h) == h.op = "resolve" /\ h.kind = "TypeNotFound"

\* after a resolve call that ended with TypeNotFound the cache holds the set
\* of the call under owner/repository@version
NotFoundSetCached ==
    \A i \in Resolves : LET h == hist[i] IN
        NotFound(h) =>
            /\ repo_id_of(h.ref) \in DOMAIN h.cache1
            /\ h.cache1[repo_id_of(h.ref)] = h.fds

\* the resolve call made right after one that ended with TypeNotFound, for
\* the same reference, calls no fetch and ends with TypeNotFound
NotFoundRepeatFails ==
    (Len(hist) = 2 /\ NotFound(hist[1]) /\ hist[2].op = "resolve"
        /\ hist[2].text = hist[1].text) =>
        /\ hist[2].nfetch = 0
        /\ hist[2].kind = "TypeNotFound"

\* C38 as claimed: a resolve call that ends with TypeNotFound leaves its set
\* in the cache under owner/repository@version and every definition of the
\* set in the pool, and the same call made again right away calls no fetch
\* and ends with TypeNotFound again.
C38_TypeNotFoundKeepsSet ==
    /\ NotFoundSetCached
    /\ NotFoundRepeatFails
    /\ \A i \in Resolves : LET h == hist[i] IN
          NotFound(h) => SetSymbols(h.fds) \subseteq PoolSymbols(h.pool1)

\* every resolve call in hist that added its set returned a class if and only
\* if the pool held the message name once the set was added
HandleIffInPool ==
    \A i \in Resolves : LET h == hist[i] IN
        Inserted(h) => (h.kind = "Handle" <=> h.ref.message \in PoolSymbols(h.pool1))

\* C39: with one caller, whenever the lookup that follows the insertion
\* misses and resolve goes on to the fallback, the call ends with
\* TypeNotFound, so that a resolve call that added its set returns a class if
\* and only if the pool holds the message name after the insertion.
C39_FallbackNeverResolves ==
    [][/\ (pc[1] = "fallback" /\ pc'[1] = "idle") =>
              /\ hist'[Len(hist')].kind = "TypeNotFound"
              /\ hist'[Len(hist')].text = call[1].text
       /\ HandleIffInPool']_vars

\* a call whose set declares the message name went through the fallback and
\* ended with TypeNotFound
C39_Witness ==
    \E i \in Resolves : LET h == hist[i] IN
        /\ Inserted(h)
        /\ h.kind = "TypeNotFound"
        /\ h.ref.message \in SetSymbols(h.fds)
        /\ h.ref.message \notin PoolSymbols(h.pool1)

----------------------------------------------------------------------------
(* Properties of the framed transport over an unbuffered pipe *)

\* C33 as claimed (its safety half): over a transport that hands the bytes of
\* a frame to the reader in chunks, read_message ends with
\* IncompleteLengthPrefix or IncompleteBody only when the stream has ended,
\* never while bytes of the frame are still to arrive.
C33_TruncationOnlyAtEnd ==
    last.kind \in {"IncompleteLengthPrefix", "IncompleteBody"} => last.atEnd

\* every byte the writer's sink has taken, in order
Produced == RCat(wire, outbox)

\* the serialized body of the k-th write_message call
BodyOf(k) == SerializeToString(sent[k].msg)

\* the number of sink operations the k-th write_message call has made
OpsDone(k) ==
    IF Len(wops) >= 3 * k THEN 3
    ELSE IF Len(wops) <= 3 * (k - 1) THEN 0
    ELSE Len(wops) - 3 * (k - 1)

\* C34: the operations on the writer's sink are, call after call, the write
\* of the four bytes of the body's length (most significant first), the write
\* of the body, and a flush; so in the bytes produced each frame begins where
\* the one before it ended, is its prefix followed at once by exactly the body
\* of the same message, and is flushed before the next prefix is written.
C34_WriterFraming ==
    /\ Len(wops) + Len(wtodo) = 3 * Len(sent)
    /\ \A i \in 1..Len(wops) :
          LET k == ((i - 1) \div 3) + 1
              j == (i - 1) % 3
          IN /\ j = 0 => /\ wops[i].op = "write"
                         /\ RLen(wops[i].data) = 4
                         /\ RByte(wops[i].data, 0) * 16777216 + RByte(wops[i].data, 1) * 65536
                                + RByte(wops[i].data, 2) * 256 + RByte(wops[i].data, 3)
                                = RLen(BodyOf(k))
             /\ j = 1 => wops[i] = [op |-> "write", data |-> BodyOf(k)]
             /\ j = 2 => wops[i].op = "flush"
    /\ \A k \in 1..Len(sent) :
          /\ sent[k].off = IF k = 1 THEN 0
                           ELSE sent[k - 1].off + 4 + RLen(BodyOf(k - 1))
          /\ OpsDone(k) = 0 => RLen(Produced) = sent[k].off
          /\ OpsDone(k) = 1 => RLen(Produced) = sent[k].off + 4
          /\ OpsDone(k) >= 1 => io_read(Produced, sent[k].off, 4) = wops[3 * k - 2].data
          /\ OpsDone(k) >= 2 =>
                /\ io_read(Produced, sent[k].off + 4, RLen(BodyOf(k))) = BodyOf(k)
                /\ k = Len(sent) => RLen(Produced) = sent[k].off + 4 + RLen(BodyOf(k))

\* two different envelopes were written, the second call has made its flush
C34_Witness ==
    /\ Len(sent) = 2
    /\ sent[1].msg # sent[2].msg
    /\ RLen(BodyOf(1)) > 0
    /\ Len(wops) = 6
    /\ wtodo = <<>>
    /\ wops[6].op = "flush"

----------------------------------------------------------------------------
(* Properties of the GRPCClient lifecycle *)

\* C40: when the with block is left, normally or by an exception, the channel
\* has been closed by __exit__ and the exception of the body, if any, is the
\* one that goes on to the caller (__exit__ leaves it as it is); the close
\* made by the destructor afterwards keeps the channel closed and puts no
\* exception in front of the caller.
C40_ExitClosesAndPropagates ==
    [][ /\ (gpc = "leaving" /\ gpc' # "leaving") =>
              /\ gpc' = "left"
              /\ channel'.state = "closed"
              /\ channel'.closes = channel.closes + 1
              /\ exc' = exc
        /\ gpc' = "left" => channel'.state = "closed"
        /\ (gpc = "left" /\ gpc' # "left") =>
              /\ gpc' = "deleted"
              /\ channel'.state = "closed"
              /\ channel'.closes = channel.closes + 1
              /\ exc' = exc ]_vars

\* a stub call raised RpcError in the body, the block was left with it, and
\* the destructor has closed again: the caller still has the RpcError
C40_Witness ==
    /\ gpc = "deleted"
    /\ channel = [state |-> "closed", closes |-> 2]
    /\ exc = "RpcError"
    /\ Len(rpcs) >= 1

====
